---- MODULE Spec2Model ----
(***************************************************************************)
(* Workflow validator and pluggable quality-assessment engine              *)
(* (workflow-builder-system/tools): WorkflowValidator.validate_workflow,   *)
(* QualityAssessmentManager and the five standard quality plugins.         *)
(*                                                                         *)
(* Scores are Python floats.  They are modelled as IEEE-754 binary64       *)
(* values (sign, 53-bit significand, exponent) with round-to-nearest-even  *)
(* after every +, * and /, so that sums such as 3.33 + 3.33 + 3.34 and     *)
(* 0.30 + 0.25 + 0.25 + 0.10 + 0.10 have the value the interpreter gives.  *)
(***************************************************************************)
EXTENDS Integers, Sequences, FiniteSets, TLC

(***************************************************************************)
(* Natural numbers of any size: little-endian sequences of limbs in        *)
(* 0 .. LimbBase-1 without leading zero limbs; zero is << >>.              *)
(***************************************************************************)
LimbBits == 7 + 8
LimbBase == 2^LimbBits

RECURSIVE BNorm(_)
BNorm(a) ==
    IF a = << >> THEN << >>
    ELSE IF a[Len(a)] = 0 THEN BNorm(SubSeq(a, 1, Len(a) - 1))
    ELSE a

RECURSIVE BFromInt(_)
BFromInt(k) ==
    IF k = 0 THEN << >> ELSE <<k % LimbBase>> \o BFromInt(k \div LimbBase)

\* a + b + c
RECURSIVE BAddC(_, _, _)
BAddC(a, b, c) ==
    IF a = << >> /\ b = << >> THEN (IF c = 0 THEN << >> ELSE <<c>>)
    ELSE LET x == IF a = << >> THEN 0 ELSE Head(a)
             y == IF b = << >> THEN 0 ELSE Head(b)
             ra == IF a = << >> THEN << >> ELSE Tail(a)
             rb == IF b = << >> THEN << >> ELSE Tail(b)
         IN  <<(x + y + c) % LimbBase>> \o BAddC(ra, rb, (x + y + c) \div LimbBase)

\* a - b - c for a >= b + c, before normalisation
RECURSIVE BSubC(_, _, _)
BSubC(a, b, c) ==
    IF a = << >> THEN << >>
    ELSE LET y == IF b = << >> THEN 0 ELSE Head(b)
             rb == IF b = << >> THEN << >> ELSE Tail(b)
         IN  IF Head(a) - y - c < 0
             THEN <<Head(a) - y - c + LimbBase>> \o BSubC(Tail(a), rb, 1)
             ELSE <<Head(a) - y - c>> \o BSubC(Tail(a), rb, 0)

\* -1, 0, 1 as a < b, a = b, a > b
RECURSIVE BCmpFrom(_, _, _)
BCmpFrom(a, b, i) ==
    IF i = 0 THEN 0
    ELSE IF a[i] < b[i] THEN -1
    ELSE IF a[i] > b[i] THEN 1
    ELSE BCmpFrom(a, b, i - 1)

BCmp(a, b) ==
    IF Len(a) < Len(b) THEN -1
    ELSE IF Len(a) > Len(b) THEN 1
    ELSE BCmpFrom(a, b, Len(a))

\* a * k + c for 0 < k < LimbBase
RECURSIVE BMulSmallC(_, _, _)
BMulSmallC(a, k, c) ==
    IF a = << >> THEN (IF c = 0 THEN << >> ELSE <<c>>)
    ELSE <<(Head(a) * k + c) % LimbBase>>
         \o BMulSmallC(Tail(a), k, (Head(a) * k + c) \div LimbBase)

RECURSIVE BMul(_, _)
BMul(a, b) ==
    IF a = << >> \/ b = << >> THEN << >>
    ELSE IF Len(a) = 1 THEN BMulSmallC(b, Head(a), 0)
    ELSE BAddC(IF Head(a) = 0 THEN << >> ELSE BMulSmallC(b, Head(a), 0),
               <<0>> \o BMul(Tail(a), b), 0)

RECURSIVE IntBitLen(_)
IntBitLen(k) == IF k = 0 THEN 0 ELSE 1 + IntBitLen(k \div 2)

BBitLen(a) ==
    IF a = << >> THEN 0 ELSE (Len(a) - 1) * LimbBits + IntBitLen(a[Len(a)])

\* a * 2^n
BShl(a, n) ==
    IF a = << >> THEN << >>
    ELSE [i \in 1..(n \div LimbBits) |-> 0] \o BMulSmallC(a, 2^(n % LimbBits), 0)

\* floor(a / 2^k) for 0 <= k < LimbBits, before normalisation
RECURSIVE BShrSmall(_, _)
BShrSmall(a, k) ==
    IF a = << >> THEN << >>
    ELSE <<(Head(a) \div (2^k))
           + (IF Len(a) > 1 THEN a[2] % (2^k) ELSE 0) * (2^(LimbBits - k))>>
         \o BShrSmall(Tail(a), k)

\* floor(a / 2^n)
BShr(a, n) ==
    IF n \div LimbBits >= Len(a) THEN << >>
    ELSE BNorm(BShrSmall(SubSeq(a, n \div LimbBits + 1, Len(a)), n % LimbBits))

\* bit i of a (0 = least significant)
BBit(a, i) ==
    IF i \div LimbBits >= Len(a) THEN 0
    ELSE (a[i \div LimbBits + 1] \div (2^(i % LimbBits))) % 2

\* a mod 2^n = 0
BLowZero(a, n) ==
    /\ \A i \in 1..(n \div LimbBits) : i > Len(a) \/ a[i] = 0
    /\ n \div LimbBits >= Len(a) \/ a[n \div LimbBits + 1] % (2^(n % LimbBits)) = 0

(***************************************************************************)
(* Python float (binary64).  A value is [s, m, e]: (-1)^s * m * 2^e with   *)
(* 2^52 <= m < 2^53, or zero ([s |-> 0, m |-> << >>, e |-> 0]).  Every     *)
(* value of the model lies far inside the normal range, so subnormals,     *)
(* infinities and NaN do not arise.                                        *)
(***************************************************************************)
MantBits == 50 + 3

FZero == [s |-> 0, m |-> << >>, e |-> 0]

\* A rounded significand q that reached 2^53 is renormalised
FRoundUp(s, e, q) ==
    IF BBitLen(q) > MantBits THEN [s |-> s, m |-> BShr(q, 1), e |-> e + 1]
    ELSE [s |-> s, m |-> q, e |-> e]

\* n has L bits: widen it to 53 bits, or drop its low L - 53 bits and round
\* half to even on the dropped part
FRoundL(s, n, e, L) ==
    IF L = 0 THEN FZero
    ELSE IF L <= MantBits
    THEN [s |-> s, m |-> BShl(n, MantBits - L), e |-> e - (MantBits - L)]
    ELSE FRoundUp(s, e + (L - MantBits),
                  BAddC(BShr(n, L - MantBits), << >>,
                        IF /\ BBit(n, L - MantBits - 1) = 1
                           /\ \/ ~BLowZero(n, L - MantBits - 1)
                              \/ BBit(n, L - MantBits) = 1
                        THEN 1 ELSE 0))

\* The float nearest to (-1)^s * n * 2^e, ties to even
FRound(s, n, e) == FRoundL(s, n, e, BBitLen(n))

FromInt(k) == FRound(IF k < 0 THEN 1 ELSE 0, BFromInt(IF k < 0 THEN -k ELSE k), 0)

FNeg(x) == IF x.m = << >> THEN x ELSE [x EXCEPT !.s = 1 - x.s]

\* -1, 0, 1 comparing magnitudes
FCmpMag(x, y) ==
    IF x.m = << >> THEN (IF y.m = << >> THEN 0 ELSE -1)
    ELSE IF y.m = << >> THEN 1
    ELSE IF x.e < y.e THEN -1
    ELSE IF x.e > y.e THEN 1
    ELSE BCmp(x.m, y.m)

FCmp(x, y) ==
    IF x.s = y.s THEN (IF x.s = 0 THEN 1 ELSE -1) * FCmpMag(x, y)
    ELSE IF x.m = << >> /\ y.m = << >> THEN 0
    ELSE IF x.s = 1 THEN -1 ELSE 1

FLt(x, y) == FCmp(x, y) < 0
FLe(x, y) == FCmp(x, y) <= 0
FGe(x, y) == FCmp(x, y) >= 0
FGt(x, y) == FCmp(x, y) > 0
FEq(x, y) == FCmp(x, y) = 0

\* Significands a, b on the common exponent lo; c compares them
FAddSigned(xs, ys, a, b, lo, c) ==
    FRound(IF c >= 0 THEN xs ELSE ys,
           IF xs = ys THEN BAddC(a, b, 0)
           ELSE BNorm(BSubC(IF c >= 0 THEN a ELSE b, IF c >= 0 THEN b ELSE a, 0)),
           lo)

FAddAligned(xs, ys, a, b, lo) ==
    FAddSigned(xs, ys, a, b, lo, IF xs = ys THEN 1 ELSE BCmp(a, b))

FAdd(x, y) ==
    IF x.m = << >> THEN y
    ELSE IF y.m = << >> THEN x
    ELSE FAddAligned(x.s, y.s,
                     BShl(x.m, IF x.e < y.e THEN 0 ELSE x.e - y.e),
                     BShl(y.m, IF x.e < y.e THEN y.e - x.e ELSE 0),
                     IF x.e < y.e THEN x.e ELSE y.e)

FMul(x, y) ==
    IF x.m = << >> \/ y.m = << >> THEN FZero
    ELSE FRound((x.s + y.s) % 2, BMul(x.m, y.m), x.e + y.e)

\* k doubling steps of the long division by b: st = [q, r] with r < b
RECURSIVE BFracBits(_, _, _)
BFracBits(b, k, st) ==
    IF k = 0 \/ Len(st.q) + Len(st.r) < 0 THEN st
    ELSE IF BCmp(BAddC(st.r, st.r, 0), b) >= 0
    THEN BFracBits(b, k - 1, [q |-> BAddC(st.q, st.q, 1),
                              r |-> BNorm(BSubC(BAddC(st.r, st.r, 0), b, 0))])
    ELSE BFracBits(b, k - 1, [q |-> BAddC(st.q, st.q, 0), r |-> BAddC(st.r, st.r, 0)])

\* n doubling steps, a limb's worth at a time
RECURSIVE BFracDiv(_, _, _)
BFracDiv(b, n, st) ==
    IF n = 0 \/ Len(st.q) < 0 THEN st
    ELSE BFracDiv(b, n - (IF n < LimbBits THEN n ELSE LimbBits),
                  BFracBits(b, IF n < LimbBits THEN n ELSE LimbBits, st))

\* Quotient and remainder of a by b for a < 2b
FDivStart(a, b, ge) ==
    [q |-> IF ge THEN <<1>> ELSE << >>, r |-> IF ge THEN BNorm(BSubC(a, b, 0)) ELSE a]

\* d: floor(x.m * 2^56 / y.m) and the remainder, which becomes a sticky bit
FDivRound(x, y, d) ==
    FRound((x.s + y.s) % 2, BAddC(d.q, d.q, IF d.r = << >> THEN 0 ELSE 1),
           x.e - y.e - (MantBits + 3) - 1)

\* x / y for y # 0
FDiv(x, y) ==
    IF x.m = << >> THEN FZero
    ELSE FDivRound(x, y, BFracDiv(y.m, MantBits + 3, FDivStart(x.m, y.m, BCmp(x.m, y.m) >= 0)))

\* The float a decimal literal n/d denotes (n, d integers the float holds exactly)
Dec(n, d) == FDiv(FromInt(n), FromInt(d))

\* Python's min(a, b): b when b < a, else a
PyMin(a, b) == IF FLt(b, a) THEN b ELSE a

(***************************************************************************)
(* The file system under a workflow path.                                  *)
(*                                                                         *)
(* A path is missing, a regular file, or a directory.  A directory is the  *)
(* sequence of its files in the order pathlib's glob walks them, plus the  *)
(* names of its (possibly empty) top-level sub-directories.                *)
(*                                                                         *)
(* A file: name, dirs (the directories from the root down to it), ext      *)
(* (suffix), pat (the name patterns fnmatch matches its name against),     *)
(* read ("ok", "decode": not UTF-8, "denied": open fails), and what its    *)
(* text holds: lines (Markdown), kw (the keywords occurring in it), parse  *)
(* and errline (compile / json.loads), run (the PowerShell check), nlines, *)
(* ncomment, nhash (lines, comment lines, '#' characters), imports         *)
(* (the module of each import line), modules (Import-Module lines),        *)
(* commands (command invocations), pk (requirement lines: "pinned" name==  *)
(* version, "plain" other valid form, "bad" invalid form).                 *)
(*                                                                         *)
(* Chinese literals of the source are written as "zh:<pinyin>".            *)
(***************************************************************************)
File(name, dirs, ext) ==
    [name |-> name, dirs |-> dirs, ext |-> ext, pat |-> {}, read |-> "ok",
     lines |-> << >>, kw |-> {}, parse |-> "ok", errline |-> 0, run |-> "ok",
     nlines |-> 1, ncomment |-> 0, nhash |-> 0, imports |-> << >>, modules |-> 0,
     commands |-> 0, pk |-> << >>]

\* Markdown lines: heading, fence, internal link, file link, step heading,
\* checkpoint, script reference, plain text
HLine(level, title, kw) == [k |-> "h", n |-> level, s |-> title, kw |-> kw, p |-> << >>]
FenceLine(lang, indent) == [k |-> "fence", n |-> indent, s |-> lang, kw |-> {}, p |-> << >>]
LinkLine(anchor) == [k |-> "link", n |-> 0, s |-> anchor, kw |-> {}, p |-> << >>]
FileLinkLine(target) == [k |-> "flink", n |-> 0, s |-> target, kw |-> {}, p |-> << >>]
StepLine(number) == [k |-> "step", n |-> number, s |-> "", kw |-> {"zh:buzhou"}, p |-> << >>]
CheckLine == [k |-> "check", n |-> 0, s |-> "", kw |-> {"zh:yonghu-queren-jiancha-dian"}, p |-> << >>]
RefLine(path) == [k |-> "ref", n |-> 0, s |-> "", kw |-> {}, p |-> path]
TextLine(kw) == [k |-> "text", n |-> 0, s |-> "", kw |-> kw, p |-> << >>]

Range(seq) == {seq[i] : i \in DOMAIN seq}

\* Path.glob("**/*.<ext>") in walk order
Glob(d, ext) == SelectSeq(d.files, LAMBDA f : f.ext = ext)

\* Path.glob("**/<pattern>") for a name pattern
GlobPat(d, pattern) == SelectSeq(d.files, LAMBDA f : pattern \in f.pat)

\* The path of a file below the root, as its components
PathOf(f) == f.dirs \o <<f.name>>

\* (workflow_dir / name).exists()
RootExists(d, name) ==
    \/ name \in d.subdirs
    \/ \E f \in Range(d.files) : IF f.dirs = << >> THEN f.name = name ELSE f.dirs[1] = name

\* Keywords that occur inside other keywords ("x in content" is a substring test)
SubstringPairs ==
    { <<"zh:shiyong", "zh:shiyong-zhidao">>, <<"zh:shiyong", "zh:shiyong-fangfa">>,
      <<"zh:guzhang", "zh:guzhang-paichu">>, <<"version", "__version__">>,
      <<"logger", "logger.info(">>, <<".info(", "logger.info(">>,
      <<"plugin", "plugins">>, <<"Error", "ValueError">>,
      <<"def ", "    def run(">> }

\* The keywords of a text as str.lower() leaves them
LowerOf(t) ==
    CASE t = "Version" -> "version"
      [] t = "Plugin" -> "plugin"
      [] t = "ValueError" -> "valueerror"
      [] t = "Error" -> "error"
      [] t = "FAQ" -> "faq"
      [] OTHER -> t

\* The text of a file: the keywords it holds
Content(f) == f.kw \cup UNION {l.kw : l \in Range(f.lines)}

Lower(content) == {LowerOf(t) : t \in content}

\* keyword in content
In(keyword, content) ==
    \E t \in content : t = keyword \/ <<keyword, t>> \in SubstringPairs

\* "```" in content
HasFence(f) == \E l \in Range(f.lines) : l.k = "fence"

(***************************************************************************)
(* WorkflowValidator: results structure and file exclusion                 *)
(***************************************************************************)
EmptyDict == [x \in {} |-> FZero]

Stage0 == [passed |-> 0, failed |-> 0, issues |-> << >>]

\* The structure __init__ builds.  plugin_scores is << >>
\* while the "plugin_scores" key is absent and <<dict>> once it is stored.
InitialResults ==
    [syntax |-> Stage0, logic |-> Stage0, dependencies |-> Stage0,
     quality |-> [score |-> FZero, details |-> EmptyDict, plugin_scores |-> << >>]]

\* A reset that forgets everything but the syntax stage
_reset_results_keeping_syntax(current) == [InitialResults EXCEPT !.syntax = current.syntax]

\* _reset_results replaces whatever the instance holds by a fresh structure
_reset_results(current) == InitialResults

\* An issue dict: "file" (<< >> when the key is absent), "line" (<< >> when
\* absent, else <<n>>) and "type"; the message is a function of these, but
\* for a heading_hierarchy issue, which carries the two levels it names.
Issue(file, line, type) == [file |-> file, line |-> line, type |-> type]

\* Exclusion patterns after the parsing _should_exclude_file does: a
\* "**/<dir>/**" pattern names a directory, a "**/<name>" pattern a file name
DirPattern(name) == [t |-> "dir", p |-> name]
NamePattern(name) == [t |-> "name", p |-> name]

default_patterns ==
    << NamePattern("workflow_system_analysis_report.md"),
       NamePattern("validation_*.txt"), NamePattern("*.backup*"),
       DirPattern("temp"), DirPattern(".git"), DirPattern("develop") >>

_should_exclude_file(f, exclude_patterns) ==
    \E i \in DOMAIN exclude_patterns :
        LET pt == exclude_patterns[i]
        IN  IF pt.t = "dir" THEN pt.p \in Range(PathOf(f))
            ELSE pt.p \in f.pat \/ f.name = pt.p

(***************************************************************************)
(* Syntax stage: Markdown                                                  *)
(***************************************************************************)
\* A line that starts with "#"
IsHashLine(l) == l.k \in {"h", "step"}

\* Its number of leading "#" ("### <step>" for a step heading)
HashLevel(l) == IF l.k = "step" THEN 1 + 2 ELSE l.n

\* The issue of a jump, whose message names the two levels
HierarchyIssue(file, line, prev_level, level) ==
    [file |-> file, line |-> <<line>>, type |-> "heading_hierarchy",
     message |-> <<prev_level, level>>]

\* The scan that flags every change of more than one level, up or down
RECURSIVE HeadingScanBothWays(_, _, _, _, _)
HeadingScanBothWays(f, lines, i, prev_level, in_code_block) ==
    IF i > Len(lines) THEN << >>
    ELSE LET l == lines[i]
         IN  IF l.k = "fence" THEN HeadingScanBothWays(f, lines, i + 1, prev_level, ~in_code_block)
             ELSE IF in_code_block \/ ~IsHashLine(l)
             THEN HeadingScanBothWays(f, lines, i + 1, prev_level, in_code_block)
             ELSE (IF HashLevel(l) > prev_level + 1 \/ HashLevel(l) < prev_level - 1
                   THEN <<HierarchyIssue(PathOf(f), i, prev_level, HashLevel(l))>> ELSE << >>)
                  \o HeadingScanBothWays(f, lines, i + 1, HashLevel(l), in_code_block)

_check_heading_hierarchy_both_ways(f) == HeadingScanBothWays(f, f.lines, 1, 0, FALSE)

\* _check_heading_hierarchy from line i on
RECURSIVE HeadingScan(_, _, _, _, _)
HeadingScan(f, lines, i, prev_level, in_code_block) ==
    IF i > Len(lines) THEN << >>
    ELSE LET l == lines[i]
         IN  IF l.k = "fence" THEN HeadingScan(f, lines, i + 1, prev_level, ~in_code_block)
             ELSE IF in_code_block \/ ~IsHashLine(l)
             THEN HeadingScan(f, lines, i + 1, prev_level, in_code_block)
             ELSE (IF HashLevel(l) > prev_level + 1
                   THEN <<HierarchyIssue(PathOf(f), i, prev_level, HashLevel(l))>> ELSE << >>)
                  \o HeadingScan(f, lines, i + 1, HashLevel(l), in_code_block)

_check_heading_hierarchy(f) == HeadingScan(f, f.lines, 1, 0, FALSE)

(***************************************************************************)
(* Heading titles and link anchors are texts: sequences of characters,     *)
(* each a one-character string ("fw:colon", "zh:jian", "emoji:book" stand  *)
(* for one full-width, one CJK and one emoji character).                   *)
(***************************************************************************)
UpperCase == <<"A", "B", "D", "F", "I", "Q", "S">>
LowerCase == <<"a", "b", "d", "f", "i", "q", "s">>
OtherLetters == {"c", "e", "g", "k", "m", "n", "o", "p", "r", "t", "u", "v"}
Digits == {"0", "2", "4", "8"}
CJK == {"zh:jian"}
Emoji == {"emoji:book"}
Whitespace == {" ", "\t"}

\* str.lower() of one character
LowerChar(c) ==
    IF \E i \in DOMAIN UpperCase : UpperCase[i] = c
    THEN LowerCase[CHOOSE i \in DOMAIN UpperCase : UpperCase[i] = c]
    ELSE c

lower(text) == [i \in DOMAIN text |-> LowerChar(text[i])]

\* \w: letters, digits, the underscore, CJK characters
WordChar(c) ==
    c \in Range(UpperCase) \cup Range(LowerCase) \cup OtherLetters \cup Digits \cup CJK \cup {"_"}

\* str.lstrip(chars), str.rstrip(chars), str.strip(chars)
RECURSIVE LStrip(_, _)
LStrip(text, chars) ==
    IF text # << >> /\ Head(text) \in chars THEN LStrip(Tail(text), chars) ELSE text

RECURSIVE RStrip(_, _)
RStrip(text, chars) ==
    IF text # << >> /\ text[Len(text)] \in chars
    THEN RStrip(SubSeq(text, 1, Len(text) - 1), chars) ELSE text

Strip(text, chars) == RStrip(LStrip(text, chars), chars)

\* re.sub(r"[chars]+", by, text): every run of the characters becomes one
RECURSIVE CollapseRuns(_, _, _)
CollapseRuns(text, chars, by) ==
    IF text = << >> THEN << >>
    ELSE IF Head(text) \in chars
    THEN <<by>> \o CollapseRuns(LStrip(text, chars), chars, by)
    ELSE <<Head(text)>> \o CollapseRuns(Tail(text), chars, by)

\* re.sub(r"[chars]", "", text)
Remove(text, chars) == SelectSeq(text, LAMBDA c : c \notin chars)

\* The first position from i on that holds one of the characters, or 0
FirstOf(text, i, chars) ==
    IF \E k \in i..Len(text) : text[k] \in chars
    THEN CHOOSE k \in i..Len(text) :
            text[k] \in chars /\ \A j \in i..(k - 1) : text[j] \notin chars
    ELSE 0

\* The first position from i on that holds no whitespace, or Len(text) + 1
AfterSpaces(text, i) ==
    IF \E k \in i..Len(text) : text[k] \notin Whitespace
    THEN CHOOSE k \in i..Len(text) :
            text[k] \notin Whitespace /\ \A j \in i..(k - 1) : text[j] \in Whitespace
    ELSE Len(text) + 1

\* re.sub(r"\s*\(([^)]*)\)", repl, text) from position i on, repl being ""
\* or r"-\1": a match is whitespace, "(", anything but ")", then ")"
RECURSIVE SubParens(_, _, _)
SubParens(text, i, keep_group) ==
    IF i > Len(text) THEN << >>
    ELSE LET open == AfterSpaces(text, i)
             close == IF open <= Len(text) /\ text[open] = "("
                      THEN FirstOf(text, open + 1, {")"}) ELSE 0
         IN  IF close > 0
             THEN (IF keep_group THEN <<"-">> \o SubSeq(text, open + 1, close - 1) ELSE << >>)
                  \o SubParens(text, close + 1, keep_group)
             ELSE <<text[i]>> \o SubParens(text, i + 1, keep_group)

\* The punctuation formats 1 and 2 remove; format 4 keeps the parentheses
Punctuation == {"fw:colon", "fw:semicolon", "'", "\"", ".", ",", "!", "?", "(", ")"}

\* Whitespace to hyphens, punctuation removed, hyphens squeezed and stripped
Hyphenated(text, punctuation) ==
    Strip(CollapseRuns(Remove(CollapseRuns(text, Whitespace, "-"), punctuation), {"-"}, "-"),
          {"-"})

\* Format 3: lower case, only word characters, whitespace, emoji and "-"
GithubAnchor(title) ==
    Strip(CollapseRuns(CollapseRuns(
              SelectSeq(lower(title),
                        LAMBDA c : WordChar(c) \/ c \in Whitespace \cup Emoji \cup {"-"}),
              Whitespace, "-"), {"-"}, "-"), {"-"})

\* Format 5: only word characters, whitespace and emoji
SimpleAnchor(title) ==
    CollapseRuns(Strip(SelectSeq(title, LAMBDA c : WordChar(c) \/ c \in Whitespace \cup Emoji),
                       Whitespace),
                 Whitespace, "-")

WithLower(anchor) == {anchor, lower(anchor)}

\* The anchors of the five formats, of a title already stripped
AnchorFormats(title) ==
    WithLower(Hyphenated(title, Punctuation))
    \cup (IF Strip(SubParens(title, 1, FALSE), Whitespace) # title
          THEN WithLower(Hyphenated(Strip(SubParens(title, 1, FALSE), Whitespace), Punctuation))
          ELSE {})
    \cup {GithubAnchor(title)}
    \cup WithLower(Hyphenated(SubParens(title, 1, TRUE), Punctuation \ {"(", ")"}))
    \cup WithLower(SimpleAnchor(title))

\* list(set(filter(None, anchors))), as the set of its elements
_generate_possible_anchors(title) ==
    AnchorFormats(Strip(LStrip(title, {"#", " "}), Whitespace)) \ {<< >>}

\* The character of a percent escape
Escapes ==
    (<<"2", "D">> :> "-") @@ (<<"2", "0">> :> " ") @@ (<<"2", "8">> :> "(")
        @@ (<<"4", "2">> :> "B")

\* urllib.parse.unquote
RECURSIVE Unquote(_)
Unquote(anchor) ==
    IF anchor = << >> THEN << >>
    ELSE IF Len(anchor) >= 3 /\ anchor[1] = "%" /\ <<anchor[2], anchor[3]>> \in DOMAIN Escapes
    THEN <<Escapes[<<anchor[2], anchor[3]>>]>> \o Unquote(SubSeq(anchor, 4, Len(anchor)))
    ELSE <<Head(anchor)>> \o Unquote(Tail(anchor))

\* anchor.lower().strip("-")
NormAnchor(anchor) == Strip(lower(anchor), {"-"})

\* The test without the comparison that ignores case and outer hyphens
_is_anchor_valid_exact(anchor, valid_anchors) ==
    anchor \in valid_anchors \/ Unquote(anchor) \in valid_anchors

_is_anchor_valid(anchor, valid_anchors) ==
    \/ anchor \in valid_anchors
    \/ Unquote(anchor) \in valid_anchors
    \/ \E v \in valid_anchors : NormAnchor(anchor) = NormAnchor(v)

\* The characters of the titles and anchors the catalogue's files hold
Chars(text) ==
    CASE text = "Intro" -> <<"I", "n", "t", "r", "o">>
      [] text = "Quick Start" -> <<"Q", "u", "i", "c", "k", " ", "S", "t", "a", "r", "t">>
      [] text = "Setup (Advanced)" ->
            <<"S", "e", "t", "u", "p", " ", "(", "A", "d", "v", "a", "n", "c", "e", "d", ")">>
      [] text = "quick-start" -> <<"q", "u", "i", "c", "k", "-", "s", "t", "a", "r", "t">>
      [] text = "-intro-" -> <<"-", "i", "n", "t", "r", "o", "-">>
      [] text = "Quick%2DStart" ->
            <<"Q", "u", "i", "c", "k", "%", "2", "D", "S", "t", "a", "r", "t">>
      [] text = "missing" -> <<"m", "i", "s", "s", "i", "n", "g">>
      [] text = "B" -> <<"B">>
      [] text = "b" -> <<"b">>
      [] OTHER -> << >>

\* The anchors of every line starting with "#", fenced or not
HeadingAnchors(f) ==
    UNION {_generate_possible_anchors(Chars(l.s)) :
              l \in {x \in Range(f.lines) : IsHashLine(x)}}

\* A link target whose name is longer than a file name may be
LongName == "name-of-300-characters.md"

\* target_file.exists() raises OSError (File name too long) for such a target
ExistsRaises(target) == target = LongName

\* The file links up to the first one whose target cannot be examined
RECURSIVE Examined(_)
Examined(filelinks) ==
    IF filelinks = << >> \/ ExistsRaises(Head(filelinks).s) THEN << >>
    ELSE <<Head(filelinks)>> \o Examined(Tail(filelinks))

\* Whether _check_link_integrity is left by an exception
LinkCheckRaises(f) ==
    \E l \in Range(f.lines) : l.k = "flink" /\ ExistsRaises(l.s)

\* _check_link_integrity: internal links first, then links to .md files; the
\* issues it has appended when it returns or raises
_check_link_integrity(f, d) ==
    LET internal == SelectSeq(f.lines, LAMBDA l : l.k = "link")
        filelinks == Examined(SelectSeq(f.lines, LAMBDA l : l.k = "flink"))
        broken == SelectSeq(internal, LAMBDA l : ~_is_anchor_valid(Chars(l.s), HeadingAnchors(f)))
        gone == SelectSeq(filelinks, LAMBDA l :
                    ~\E g \in Range(d.files) : g.dirs = f.dirs /\ g.name = l.s)
    IN  [i \in DOMAIN broken |-> Issue(PathOf(f), << >>, "broken_link")]
        \o [i \in DOMAIN gone |-> Issue(PathOf(f), << >>, "broken_file_link")]

\* _check_code_block_format from line i on: only unindented fences count
RECURSIVE FenceScan(_, _, _, _)
FenceScan(f, lines, i, in_code_block) ==
    IF i > Len(lines) THEN << >>
    ELSE LET l == lines[i]
         IN  IF l.k = "fence" /\ l.n = 0
             THEN (IF ~in_code_block /\ l.s = ""
                   THEN <<Issue(PathOf(f), <<i>>, "code_block_language")>> ELSE << >>)
                  \o FenceScan(f, lines, i + 1, ~in_code_block)
             ELSE FenceScan(f, lines, i + 1, in_code_block)

_check_code_block_format(f) == FenceScan(f, f.lines, 1, FALSE)

\* Append issues to a stage and move its counters
Record(vr, stage, passed, failed, issues) ==
    [vr EXCEPT ![stage] = [passed |-> @.passed + passed, failed |-> @.failed + failed,
                           issues |-> @.issues \o issues]]

\* The except branch covers the read and the three checks
_validate_markdown_syntax(vr, f, d) ==
    IF f.read # "ok"
    THEN Record(vr, "syntax", 0, 1, <<Issue(PathOf(f), << >>, "markdown_syntax")>>)
    ELSE IF LinkCheckRaises(f)
    THEN Record(vr, "syntax", 0, 1,
                _check_heading_hierarchy(f) \o _check_link_integrity(f, d)
                \o <<Issue(PathOf(f), << >>, "markdown_syntax")>>)
    ELSE Record(vr, "syntax", 1, 0,
                _check_heading_hierarchy(f) \o _check_link_integrity(f, d)
                \o _check_code_block_format(f))

(***************************************************************************)
(* Syntax stage: Python, PowerShell, JSON.  A stage step yields            *)
(* [vr, raised]: the results so far and whether an exception left it.      *)
(***************************************************************************)
Ok(vr) == [vr |-> vr, raised |-> FALSE]
Raise(vr) == [vr |-> vr, raised |-> TRUE]

_validate_python_syntax(vr, f) ==
    IF f.read # "ok"
    THEN Record(vr, "syntax", 0, 1, <<Issue(PathOf(f), << >>, "python_error")>>)
    ELSE IF f.parse # "ok"
    THEN Record(vr, "syntax", 0, 1, <<Issue(PathOf(f), <<f.errline>>, "python_syntax")>>)
    ELSE Record(vr, "syntax", 1, 0, << >>)

\* run: "ok" (return code 0), "fail", "timeout", "error" (the command cannot start)
_validate_powershell_syntax(vr, f) ==
    CASE f.run = "ok" -> Record(vr, "syntax", 1, 0, << >>)
      [] f.run = "fail" ->
            Record(vr, "syntax", 0, 1, <<Issue(PathOf(f), << >>, "powershell_syntax")>>)
      [] f.run = "timeout" ->
            Record(vr, "syntax", 0, 0, <<Issue(PathOf(f), << >>, "powershell_timeout")>>)
      [] OTHER ->
            Record(vr, "syntax", 0, 0, <<Issue(PathOf(f), << >>, "powershell_error")>>)

\* Only json.JSONDecodeError is caught: a failing read leaves the method
_validate_json_syntax(vr, f) ==
    IF f.read # "ok" THEN Raise(vr)
    ELSE IF f.parse # "ok"
    THEN Ok(Record(vr, "syntax", 0, 1, <<Issue(PathOf(f), <<f.errline>>, "json_syntax")>>))
    ELSE Ok(Record(vr, "syntax", 1, 0, << >>))

\* One loop of validate_syntax over the files of a suffix, in glob order
RECURSIVE SyntaxLoop(_, _, _, _)
SyntaxLoop(r, files, d, xp) ==
    IF r.raised \/ files = << >> THEN r
    ELSE LET f == Head(files)
             r2 == IF _should_exclude_file(f, xp) THEN r
                   ELSE CASE f.ext = "md" -> Ok(_validate_markdown_syntax(r.vr, f, d))
                          [] f.ext = "py" -> Ok(_validate_python_syntax(r.vr, f))
                          [] f.ext = "ps1" -> Ok(_validate_powershell_syntax(r.vr, f))
                          [] OTHER -> _validate_json_syntax(r.vr, f)
         IN  SyntaxLoop(r2, Tail(files), d, xp)

validate_syntax(vr, d, xp) ==
    SyntaxLoop(Ok(vr), Glob(d, "md") \o Glob(d, "py") \o Glob(d, "ps1") \o Glob(d, "json"),
               d, xp)

(***************************************************************************)
(* Logic stage                                                             *)
(***************************************************************************)
\* A search that looks for README.md first
_find_main_workflow_readme_first(d) ==
    LET root(fs) == SelectSeq(fs, LAMBDA f : f.dirs = << >>)
        templates == root(GlobPat(d, "*_template.md"))
        named(n) == SelectSeq(d.files, LAMBDA f : f.dirs = << >> /\ f.name = n)
    IN  IF named("README.md") # << >> THEN <<named("README.md")[1]>>
        ELSE IF named("workflow.md") # << >> THEN <<named("workflow.md")[1]>>
        ELSE IF templates # << >> THEN <<templates[1]>>
        ELSE << >>

\* << >> when no main workflow file is found, else <<file>>
_find_main_workflow(d) ==
    LET root(fs) == SelectSeq(fs, LAMBDA f : f.dirs = << >>)
        templates == root(GlobPat(d, "*_template.md"))
        named(n) == SelectSeq(d.files, LAMBDA f : f.dirs = << >> /\ f.name = n)
    IN  IF templates # << >> THEN <<templates[1]>>
        ELSE IF named("workflow.md") # << >> THEN <<named("workflow.md")[1]>>
        ELSE IF named("README.md") # << >> THEN <<named("README.md")[1]>>
        ELSE << >>

\* The four required sections
required_sections ==
    <<"zh:gongzuoliu-jianjie", "zh:mulu-jiegou", "zh:biaozhun-liucheng",
      "zh:zidong-shengcheng-quyu">>

_validate_workflow_structure(vr, f) ==
    LET missing == SelectSeq(required_sections, LAMBDA sec : ~In(sec, Content(f)))
    IN  Record(vr, "logic", Len(required_sections) - Len(missing), Len(missing),
               [i \in DOMAIN missing |-> Issue(PathOf(f), << >>, "missing_section")])

\* A check of which numbers occur, whatever their order
_validate_step_completeness_any_order(vr, f) ==
    LET steps == SelectSeq(f.lines, LAMBDA l : l.k = "step")
    IN  IF steps = << >>
        THEN Record(vr, "logic", 0, 1, <<Issue(PathOf(f), << >>, "no_steps")>>)
        ELSE IF {steps[i].n : i \in DOMAIN steps} # 1..Len(steps)
        THEN Record(vr, "logic", 0, 1, <<Issue(PathOf(f), << >>, "step_numbering")>>)
        ELSE Record(vr, "logic", 1, 0, << >>)

_validate_step_completeness(vr, f) ==
    LET steps == SelectSeq(f.lines, LAMBDA l : l.k = "step")
        step_numbers == [i \in DOMAIN steps |-> steps[i].n]
    IN  IF steps = << >>
        THEN Record(vr, "logic", 0, 1, <<Issue(PathOf(f), << >>, "no_steps")>>)
        ELSE IF step_numbers # [i \in DOMAIN steps |-> i]
        THEN Record(vr, "logic", 0, 1, <<Issue(PathOf(f), << >>, "step_numbering")>>)
        ELSE Record(vr, "logic", 1, 0, << >>)

_validate_checkpoints(vr, f) ==
    LET checkpoints == SelectSeq(f.lines, LAMBDA l : l.k = "check")
    IN  IF Len(checkpoints) < 2
        THEN Record(vr, "logic", 0, 1,
                    <<Issue(PathOf(f), << >>, "insufficient_checkpoints")>>)
        ELSE Record(vr, "logic", 1, 0, << >>)

\* (workflow_dir / script_ref).exists(): a file or a directory at that path
ScriptExists(d, path) ==
    \/ \E g \in Range(d.files) :
          \/ PathOf(g) = path
          \/ Len(g.dirs) >= Len(path) /\ SubSeq(g.dirs, 1, Len(path)) = path
    \/ Len(path) = 1 /\ path[1] \in d.subdirs

RECURSIVE RefLoop(_, _, _, _)
RefLoop(vr, refs, f, d) ==
    IF refs = << >> THEN vr
    ELSE RefLoop(IF ScriptExists(d, Head(refs).p)
                 THEN Record(vr, "logic", 1, 0, << >>)
                 ELSE Record(vr, "logic", 0, 1,
                             <<Issue(PathOf(f), << >>, "missing_script")>>),
                 Tail(refs), f, d)

_validate_file_references(vr, f, d) ==
    RefLoop(vr, SelectSeq(f.lines, LAMBDA l : l.k = "ref"), f, d)

\* The main workflow file is read without a guard: a failing read leaves the stage
validate_logic(vr, d) ==
    LET main == _find_main_workflow(d)
    IN  IF main = << >>
        THEN Ok(Record(vr, "logic", 0, 1, <<Issue(<< >>, << >>, "missing_main_workflow")>>))
        ELSE IF main[1].read # "ok" THEN Raise(vr)
        ELSE Ok(_validate_file_references(
                    _validate_checkpoints(
                        _validate_step_completeness(
                            _validate_workflow_structure(vr, main[1]), main[1]), main[1]),
                    main[1], d))

(***************************************************************************)
(* Dependency stage                                                        *)
(***************************************************************************)
RECURSIVE PackageLoop(_, _, _)
PackageLoop(vr, pk, f) ==
    IF pk = << >> THEN vr
    ELSE PackageLoop(IF Head(pk) # "bad" THEN Record(vr, "dependencies", 1, 0, << >>)
                     ELSE Record(vr, "dependencies", 0, 1,
                                 <<Issue(PathOf(f), << >>, "invalid_package")>>),
                     Tail(pk), f)

builtin_modules ==
    {"os", "sys", "re", "json", "logging", "datetime", "pathlib", "subprocess",
     "argparse", "unittest", "tempfile", "shutil"}

\* A test that takes no module for a built-in one
_is_builtin_module_never(module_name) == FALSE

_is_builtin_module(module_name) == module_name \in builtin_modules

\* One pass per import of a module that is not built in
ImportsCounted(f) == Len(SelectSeq(f.imports, LAMBDA m : ~_is_builtin_module(m)))

RECURSIVE ImportLoop(_, _)
ImportLoop(vr, files) ==
    IF files = << >> THEN vr
    ELSE LET f == Head(files)
         IN  ImportLoop(IF f.read # "ok"
                        THEN Record(vr, "dependencies", 0, 1,
                                    <<Issue(PathOf(f), << >>, "import_check_error")>>)
                        ELSE Record(vr, "dependencies", ImportsCounted(f), 0, << >>),
                        Tail(files))

_check_python_dependencies(vr, d) ==
    LET req == SelectSeq(d.files, LAMBDA f : f.dirs = << >> /\ f.name = "requirements.txt")
        vr1 == IF req = << >> THEN vr
               ELSE IF req[1].read # "ok"
               THEN Record(vr, "dependencies", 0, 1,
                           <<Issue(PathOf(req[1]), << >>, "requirements_error")>>)
               ELSE PackageLoop(vr, req[1].pk, req[1])
    IN  ImportLoop(vr1, Glob(d, "py"))

RECURSIVE _check_powershell_modules(_, _)
_check_powershell_modules(vr, files) ==
    IF files = << >> THEN vr
    ELSE LET f == Head(files)
         IN  _check_powershell_modules(
                 IF f.read # "ok"
                 THEN Record(vr, "dependencies", 0, 1,
                             <<Issue(PathOf(f), << >>, "powershell_module_error")>>)
                 ELSE Record(vr, "dependencies", f.modules, 0, << >>),
                 Tail(files))

\* Every command invocation found in a readable script counts as passed
RECURSIVE _check_system_dependencies(_, _)
_check_system_dependencies(vr, files) ==
    IF files = << >> THEN vr
    ELSE LET f == Head(files)
         IN  _check_system_dependencies(
                 IF f.ext \in {"py", "ps1"} /\ f.read = "ok"
                 THEN Record(vr, "dependencies", f.commands, 0, << >>) ELSE vr,
                 Tail(files))

validate_dependencies(vr, d) ==
    _check_system_dependencies(
        _check_powershell_modules(_check_python_dependencies(vr, d), Glob(d, "ps1")),
        d.files)

(***************************************************************************)
(* Quality stage: the validator's own five dimension assessments.  Each    *)
(* yields [score, raised].                                                 *)
(***************************************************************************)
Scored(x) == [score |-> x, raised |-> FALSE]
Raised == [score |-> FZero, raised |-> TRUE]

\* any(workflow_dir.glob(p) for p in patterns): the elements are generator
\* objects, which are true whether or not they yield anything
AnyOfGenerators(patterns) == patterns # << >>

\* any(workflow_dir.glob("README.md"))
HasReadme(d) == \E f \in Range(d.files) : f.dirs = << >> /\ f.name = "README.md"

\* existing_dirs: how many of templates, docs, tools exist under the root
ExistingDirs(d) == Cardinality({n \in {"templates", "docs", "tools"} : RootExists(d, n)})

Bonus(cond, k) == IF cond THEN FromInt(k) ELSE FZero

\* (score / total_checks) * 10
Scale(score, total_checks) == FMul(FDiv(score, FromInt(total_checks)), FromInt(10))

_assess_completeness(d) ==
    LET s1 == Bonus(AnyOfGenerators(<<"*_template.md", "*_workflow.md">>), 1)
        s2 == FAdd(s1, Bonus(HasReadme(d), 1))
        s3 == FAdd(s2, Bonus(Glob(d, "py") # << >> \/ Glob(d, "ps1") # << >>, 2))
        s4 == FAdd(s3, FDiv(FromInt(ExistingDirs(d)), FromInt(3)))
        s5 == FAdd(s4, Bonus(GlobPat(d, "test_*.py") # << >>, 1))
        s6 == FAdd(s5, Bonus(Glob(d, "json") # << >> \/ Glob(d, "yaml") # << >>, 1))
    IN  Scale(s6, 6)

\* A loop that reads each file in turn without a guard and stops at the
\* first one satisfying P: "found", "none", or "raise" when a read fails first
RECURSIVE First(_)
First(outcomes) ==
    IF outcomes = << >> THEN "none"
    ELSE IF Head(outcomes) \in {"raise", "found"} THEN Head(outcomes)
    ELSE First(Tail(outcomes))

Scan(files, skip(_), P(_)) ==
    First([i \in DOMAIN files |->
              IF skip(files[i]) THEN "skip"
              ELSE IF files[i].read # "ok" THEN "raise"
              ELSE IF P(files[i]) THEN "found" ELSE "miss"])

\* Sum a sequence of scans into a score; a raising scan ends the method
RECURSIVE ScanSum(_)
ScanSum(results) ==
    IF results = << >> THEN 0
    ELSE IF Head(results) = "raise" THEN -1
    ELSE LET rest == ScanSum(Tail(results))
         IN  IF rest < 0 THEN -1 ELSE rest + (IF Head(results) = "found" THEN 1 ELSE 0)

AnyIn(keywords, content) == \E k \in keywords : In(k, content)

_assess_usability(d, xp) ==
    LET skip(f) == _should_exclude_file(f, xp)
        md == Glob(d, "md")
        texts == SelectSeq(d.files, LAMBDA f : f.ext \in {"md", "py", "ps1"})
        n == ScanSum(<<
               Scan(md, skip, LAMBDA f : AnyIn({"zh:shiyong-zhidao", "zh:kuaisu-kaishi"}, Content(f))),
               Scan(md, skip, LAMBDA f : HasFence(f)),
               Scan(texts, skip, LAMBDA f : AnyIn({"zh:cuowu", "zh:yichang", "zh:guzhang"}, Content(f))),
               Scan(md, skip, LAMBDA f : AnyIn({"zh:peizhi", "zh:shezhi"}, Content(f))),
               Scan(md, skip, LAMBDA f : AnyIn({"FAQ", "zh:guzhang-paichu", "zh:changjian-wenti"}, Content(f))) >>)
    IN  IF n < 0 THEN Raised ELSE Scored(Scale(FromInt(n), 5))

RECURSIVE SumOver(_, _)
SumOver(files, field) ==
    IF files = << >> THEN 0 ELSE Head(files)[field] + SumOver(Tail(files), field)

Readable(files) == SelectSeq(files, LAMBDA f : f.read = "ok")

\* The four features _check_object_oriented_design counts in readable files
OOFeatures(files) ==
    {k \in {"class", "class(", "method", "decorator"} :
        \E f \in Range(Readable(files)) : k \in f.kw}

\* oo_score += points when the feature was seen
Credit(oo_score, seen, points) == IF seen THEN FAdd(oo_score, points) ELSE oo_score

_check_object_oriented_design(files) ==
    IF files = << >> THEN FZero
    ELSE PyMin(FromInt(1),
               Credit(Credit(Credit(Credit(FZero,
                   "class" \in OOFeatures(files), Dec(5, 10)),
                   "class(" \in OOFeatures(files), Dec(2, 10)),
                   "method" \in OOFeatures(files), Dec(2, 10)),
                   "decorator" \in OOFeatures(files), Dec(1, 10)))

_assess_maintainability(d) ==
    LET python_files == Glob(d, "py")
        total_lines == SumOver(Readable(python_files), "nlines")
        comment_lines == SumOver(Readable(python_files), "ncomment")
        c1 == python_files # << >> /\ total_lines > 0
              /\ FGe(FDiv(FromInt(comment_lines), FromInt(total_lines)), Dec(1, 10))
        c2 == FGt(_check_object_oriented_design(python_files), FZero)
        c3 == \E f \in Range(Readable(Glob(d, "md"))) :
                 In("zh:banben", Content(f)) \/ In("version", Lower(Content(f)))
        c4 == \E f \in Range(Readable(python_files)) : AnyIn({"logging", "logger"}, Content(f))
        n == Cardinality({i \in 1..4 : <<c1, c2, c3, c4>>[i]})
    IN  Scale(FromInt(n), 4)

_assess_documentation(d) ==
    LET all(f) == FALSE
        md == Glob(d, "md")
        n == ScanSum(<<
               Scan(md, all, LAMBDA f : \A k \in {"zh:mubiao", "zh:shiyong", "zh:buzhou"} : In(k, Content(f))),
               Scan(Glob(d, "py"), all, LAMBDA f : AnyIn({"docstring", "def "}, Content(f))),
               Scan(md, all, LAMBDA f : AnyIn({"zh:chuangjian-shijian", "zh:gengxin-shijian"}, Content(f))) >>)
    IN  IF n < 0 THEN Raised
        ELSE Scored(Scale(FromInt(n + (IF HasReadme(d) THEN 1 ELSE 0)), 4))

\* Names of directories anywhere under the root
DirNames(d) == d.subdirs \cup UNION {Range(f.dirs) : f \in Range(d.files)}

\* glob("**/template*"): a file or directory whose name starts with "template"
HasTemplateEntry(d) ==
    GlobPat(d, "template*") # << >> \/ DirNames(d) \cap {"template", "templates"} # {}

_assess_extensibility(d) ==
    LET all(f) == FALSE
        r == Scan(Glob(d, "py"), all, LAMBDA f : AnyIn({"plugin", "extend"}, Lower(Content(f))))
        n == (IF Glob(d, "json") # << >> \/ Glob(d, "yaml") # << >> THEN 1 ELSE 0)
             + (IF HasTemplateEntry(d) THEN 1 ELSE 0) + (IF r = "found" THEN 1 ELSE 0)
    IN  IF r = "raise" THEN Raised ELSE Scored(Scale(FromInt(n), 3))

(***************************************************************************)
(* Extended plugins (validator_plugins.py).  They read files with          *)
(* errors="ignore", so only a file that cannot be opened makes a read      *)
(* fail; a failing read leaves assess, and assess_all scores it 0.0.       *)
(***************************************************************************)
NoSkip(f) == FALSE

ScanIgnore(files, P(_)) ==
    First([i \in DOMAIN files |->
              IF files[i].read = "denied" THEN "raise"
              ELSE IF P(files[i]) THEN "found" ELSE "miss"])

RootFile(d, name) == SelectSeq(d.files, LAMBDA f : f.dirs = << >> /\ f.name = name)

\* pinned_versions / len(lines) >= 0.7
PinnedEnough(pk) ==
    LET pinned == Len(SelectSeq(pk, LAMBDA x : x = "pinned"))
    IN  pk # << >> /\ FGe(FDiv(FromInt(pinned), FromInt(Len(pk))), Dec(7, 10))

\* Outcome of a check: "found" (holds), "none", "raise"
_check_dependency_security(d) ==
    LET req == RootFile(d, "requirements.txt")
    IN  IF req = << >> THEN "found"
        ELSE IF req[1].read # "ok" THEN "raise"
        ELSE IF PinnedEnough(req[1].pk) THEN "found" ELSE "none"

_check_no_hardcoded_secrets(d) ==
    LET r == ScanIgnore(Glob(d, "py"), LAMBDA f : "secret-literal" \in Lower(f.kw))
    IN  IF r = "raise" THEN "raise" ELSE IF r = "found" THEN "none" ELSE "found"

_check_permission_config(d) ==
    LET cfg == RootFile(d, "config.yaml")
    IN  IF cfg # << >> /\ cfg[1].read = "ok" /\ cfg[1].parse = "ok"
           /\ cfg[1].kw \cap {"security", "permissions"} # {}
        THEN "found" ELSE "none"

\* A plugin's checks, each worth its points: the score, or a raise
RECURSIVE CheckSum(_, _)
CheckSum(outcomes, acc) ==
    IF outcomes = << >> THEN Scored(acc)
    ELSE IF Head(outcomes).r = "raise" THEN Raised
    ELSE CheckSum(Tail(outcomes),
                  IF Head(outcomes).r = "found" THEN FAdd(acc, Head(outcomes).pts) ELSE acc)

Check(r, pts) == [r |-> r, pts |-> pts]

\* (score / max_score) * 10 unless a check raised
Normalised(s, max_score) == IF s.raised THEN Raised ELSE Scored(Scale(s.score, max_score))

Flag(b) == IF b THEN "found" ELSE "none"

SecurityPlugin_assess(d) ==
    LET py == Glob(d, "py")
        s == CheckSum(<<
               Check(_check_no_hardcoded_secrets(d), FromInt(1)),
               Check(Flag(RootExists(d, ".gitignore")), FromInt(1)),
               Check(_check_permission_config(d), FromInt(1)),
               Check(ScanIgnore(py, LAMBDA f :
                         AnyIn({"validate", "sanitize", "isinstance", "assert"}, Content(f))),
                     FromInt(1)),
               Check(_check_dependency_security(d), FromInt(1)) >>, FZero)
    IN  Normalised(s, 5)

PerformancePlugin_assess(d) ==
    LET py == Glob(d, "py")
        kw(K) == ScanIgnore(py, LAMBDA f : AnyIn(K, Content(f)))
        s == CheckSum(<<
               Check(kw({"lru_cache", "functools.cache", "asyncio", "multiprocessing"}), FromInt(1)),
               Check(kw({"threading", "asyncio", "concurrent.futures", "multiprocessing"}), FromInt(1)),
               Check(kw({"cache", "memoize", "lru_cache"}), FromInt(1)),
               Check(kw({"with open", "context manager", "__enter__", "__exit__"}), FromInt(1)) >>,
               FZero)
    IN  Normalised(s, 4)

\* The three test patterns, matches concatenated (a file may appear twice)
TestFiles(d) ==
    GlobPat(d, "test_*.py")
    \o SelectSeq(Glob(d, "py"), LAMBDA f : f.dirs # << >> /\ f.dirs[Len(f.dirs)] = "tests")
    \o GlobPat(d, "*_test.py")

_calculate_test_coverage(d) ==
    LET test_files == TestFiles(d)
        source_files == SelectSeq(Glob(d, "py"), LAMBDA f : f \notin Range(test_files))
    IN  IF source_files = << >> THEN FromInt(1)
        ELSE FDiv(FromInt(Len(test_files)), FromInt(Len(source_files)))

_check_ci_configuration(d) ==
    \/ \E f \in Range(d.files) :
          f.dirs = <<".github", "workflows">> /\ f.ext \in {"yml", "yaml"}
    \/ \E n \in {".gitlab-ci.yml", "Jenkinsfile", ".travis.yml"} : RootFile(d, n) # << >>

\* The plugin's checks for a coverage that is high (>= 0.7) or medium (>= 0.5)
TestCoverageChecks(d, high, medium) ==
    CheckSum(<< Check(Flag(TestFiles(d) # << >>), FromInt(1)),
                Check(Flag(high), FromInt(1)),
                Check(Flag(~high /\ medium), Dec(5, 10)),
                Check(ScanIgnore(Glob(d, "py"), LAMBDA f :
                          AnyIn({"pytest", "unittest", "nose", "doctest"}, Content(f))),
                      FromInt(1)),
                Check(Flag(_check_ci_configuration(d)), FromInt(1)) >>, FZero)

CoverageLevels(d, coverage) ==
    Normalised(TestCoverageChecks(d, FGe(coverage, Dec(7, 10)), FGe(coverage, Dec(5, 10))), 4)

TestCoveragePlugin_assess(d) == CoverageLevels(d, _calculate_test_coverage(d))

PyMax(a, b) == IF FGt(b, a) THEN b ELSE a

\* The builtin plugins in registration order
builtin_plugins == <<"security", "performance", "test_coverage">>

PluginAssess(name, d) ==
    CASE name = "security" -> SecurityPlugin_assess(d)
      [] name = "performance" -> PerformancePlugin_assess(d)
      [] OTHER -> TestCoveragePlugin_assess(d)

\* PluginManager.assess_all: one clamped score per enabled plugin
Clamped(r) == IF r.raised THEN FZero ELSE PyMin(FromInt(10), PyMax(FZero, r.score))

\* The loop taken over every builtin plugin, enabled or not
assess_all_every_plugin(d, enabled_plugins) ==
    [name \in Range(builtin_plugins) |-> Clamped(PluginAssess(name, d))]

assess_all(d, enabled_plugins) ==
    [name \in {n \in Range(builtin_plugins) : n \in enabled_plugins} |->
        Clamped(PluginAssess(name, d))]

(***************************************************************************)
(* WorkflowValidator.assess_quality and the report                         *)
(***************************************************************************)
Dimensions ==
    <<"completeness", "usability", "maintainability", "documentation", "extensibility">>

\* The fixed weights of assess_quality
QualityWeights ==
    [dimension \in Range(Dimensions) |->
        CASE dimension = "completeness" -> Dec(30, 100)
          [] dimension = "usability" -> Dec(25, 100)
          [] dimension = "maintainability" -> Dec(25, 100)
          [] dimension = "documentation" -> Dec(10, 100)
          [] OTHER -> Dec(10, 100)]

\* sum(...) of score * weight over a sequence of keys, left to right from acc
RECURSIVE WeightedSum(_, _, _, _)
WeightedSum(keys, scores, weights, acc) ==
    IF keys = << >> THEN acc
    ELSE WeightedSum(Tail(keys), scores, weights,
                     FAdd(acc, FMul(scores[Head(keys)], weights[Head(keys)])))

\* One dimension override: the zip of its plugins and weights that have a score
RECURSIVE OverrideSum(_, _, _, _)
OverrideSum(plugins, weights, plugin_scores, acc) ==
    IF plugins = << >> \/ weights = << >> THEN acc
    ELSE OverrideSum(Tail(plugins), Tail(weights), plugin_scores,
                     IF Head(plugins) \in DOMAIN plugin_scores
                     THEN [ws |-> FAdd(acc.ws, FMul(plugin_scores[Head(plugins)], Head(weights))),
                           tw |-> FAdd(acc.tw, Head(weights))]
                     ELSE acc)

\* The overrides applied without the comparison of the two lengths
RECURSIVE ApplyOverridesZipped(_, _, _)
ApplyOverridesZipped(quality_scores, overrides, plugin_scores) ==
    IF overrides = << >> THEN quality_scores
    ELSE LET o == Head(overrides)
             t == OverrideSum(o.plugins, o.weights, plugin_scores, [ws |-> FZero, tw |-> FZero])
             q == IF o.enabled /\ o.dimension \in DOMAIN quality_scores /\ FGt(t.tw, FZero)
                  THEN [quality_scores EXCEPT ![o.dimension] = FDiv(t.ws, t.tw)]
                  ELSE quality_scores
         IN  ApplyOverridesZipped(q, Tail(overrides), plugin_scores)

RECURSIVE ApplyOverrides(_, _, _)
ApplyOverrides(quality_scores, overrides, plugin_scores) ==
    IF overrides = << >> THEN quality_scores
    ELSE LET o == Head(overrides)
             t == OverrideSum(o.plugins, o.weights, plugin_scores, [ws |-> FZero, tw |-> FZero])
             q == IF o.enabled /\ o.dimension \in DOMAIN quality_scores
                     /\ Len(o.plugins) = Len(o.weights) /\ FGt(t.tw, FZero)
                  THEN [quality_scores EXCEPT ![o.dimension] = FDiv(t.ws, t.tw)]
                  ELSE quality_scores
         IN  ApplyOverrides(q, Tail(overrides), plugin_scores)

\* config: [enable_plugins, enabled_plugins, dimension_overrides]
\* The stored result: total score, the dimension details, the plugin scores
QualityResult(vr, quality_scores, plugin_scores) ==
    [vr EXCEPT !.quality =
        [score |-> WeightedSum(Dimensions, quality_scores, QualityWeights, FZero),
         details |-> quality_scores,
         plugin_scores |-> IF DOMAIN plugin_scores = {} THEN << >> ELSE <<plugin_scores>>]]

\* quality_scores as the five assessments leave it
DimensionDict(c, u, m, doc, ext) ==
    [dim \in Range(Dimensions) |->
        CASE dim = "completeness" -> c
          [] dim = "usability" -> u
          [] dim = "maintainability" -> m
          [] dim = "documentation" -> doc
          [] OTHER -> ext]

\* The five dimension assessments in order; one that raises ends the stage
DimensionScores(vr, config, c, u, m, doc, ext, plugin_scores) ==
    IF u.raised \/ doc.raised \/ ext.raised THEN Raise(vr)
    ELSE Ok(QualityResult(vr,
                IF config.enable_plugins
                THEN ApplyOverrides(DimensionDict(c, u.score, m, doc.score, ext.score),
                                    config.dimension_overrides, plugin_scores)
                ELSE DimensionDict(c, u.score, m, doc.score, ext.score),
                plugin_scores))

assess_quality(vr, d, xp, config) ==
    DimensionScores(vr, config,
        _assess_completeness(d), _assess_usability(d, xp), _assess_maintainability(d),
        _assess_documentation(d), _assess_extensibility(d),
        IF config.enable_plugins THEN assess_all(d, config.enabled_plugins) ELSE EmptyDict)

_get_all_issues(vr) == vr.syntax.issues \o vr.logic.issues \o vr.dependencies.issues

\* The critical set without broken links
critical_types_without_links == {"missing_main_workflow", "python_syntax", "missing_section"}

critical_types == {"missing_main_workflow", "python_syntax", "missing_section", "broken_link"}

_get_critical_issues(vr) ==
    SelectSeq(_get_all_issues(vr), LAMBDA issue : issue.type \in critical_types)

\* Grades: "zh:youxiu" (excellent), "zh:lianghao" (good), "zh:jige" (pass),
\* "zh:bujige" (fail)
_get_quality_grade(score) ==
    IF FGe(score, Dec(85, 10)) THEN "zh:youxiu"
    ELSE IF FGe(score, FromInt(7)) THEN "zh:lianghao"
    ELSE IF FGe(score, FromInt(6)) THEN "zh:jige"
    ELSE "zh:bujige"

StageReport(st) ==
    [status |-> IF st.failed = 0 THEN "PASS" ELSE "FAIL",
     total_checks |-> st.passed + st.failed,
     passed |-> st.passed, failed |-> st.failed, issues |-> st.issues]

_generate_validation_report(vr) ==
    [summary |->
        [overall_status |-> IF Len(_get_critical_issues(vr)) = 0 THEN "PASS" ELSE "FAIL",
         total_issues |-> Len(_get_all_issues(vr)),
         critical_issues |-> Len(_get_critical_issues(vr)),
         quality_score |-> vr.quality.score],
     syntax_validation |-> StageReport(vr.syntax),
     logic_validation |-> StageReport(vr.logic),
     dependency_validation |-> StageReport(vr.dependencies),
     quality_assessment |->
        [overall_score |-> vr.quality.score,
         grade |-> _get_quality_grade(vr.quality.score),
         details |-> vr.quality.details]]

(***************************************************************************)
(* The five standard quality plugins (plugins/quality_assessment/).  Every *)
(* check reads files inside try/except, so a failing read is skipped.      *)
(* assess yields [score, raised].                                          *)
(***************************************************************************)
validate_workflow_dir(workflow_dir) == workflow_dir.kind = "dir"

\* should_exclude_file with exclude_patterns = None
should_exclude_file(f) == _should_exclude_file(f, default_patterns)

\* The matches of a glob that are not excluded
InScope(files) == SelectSeq(files, LAMBDA f : ~should_exclude_file(f))

\* except Exception: continue
Caught(read) == IF read = "raise" THEN "miss" ELSE read

\* for f in files: skip the excluded; try: read, return True if P; except: continue
ScanCaught(files, P(_)) ==
    First([i \in DOMAIN files |->
              IF should_exclude_file(files[i]) THEN "skip"
              ELSE Caught(IF files[i].read # "ok" THEN "raise"
                          ELSE IF P(files[i]) THEN "found" ELSE "miss")])

max_score == FromInt(10)

\* The points of each plugin's checks, in the order assess makes them
completeness_points ==
    <<Dec(167, 100), Dec(167, 100), Dec(333, 100), Dec(167, 100), Dec(167, 100), Dec(167, 100)>>
usability_points == <<FromInt(2), FromInt(2), FromInt(2), FromInt(2), FromInt(2)>>
maintainability_points == <<Dec(25, 10), Dec(25, 10), Dec(25, 10), Dec(25, 10)>>
documentation_points == <<Dec(25, 10), Dec(25, 10), Dec(25, 10), Dec(25, 10)>>
extensibility_points == <<Dec(333, 100), Dec(333, 100), Dec(334, 100)>>

\* The checks' sum as it is, without min(score, self.max_score)
FinalUnclamped(s) == s

\* min(score, self.max_score) of the checks' sum, or the raise of a check
Final(s) == IF s.raised THEN Raised ELSE Scored(PyMin(s.score, max_score))

CompletenessPlugin_assess(d) ==
    IF ~validate_workflow_dir(d) THEN Scored(FZero)
    ELSE Final(Scored(
        Credit(Credit(
            FAdd(Credit(Credit(Credit(FZero,
                     AnyOfGenerators(<<"*_template.md", "*_workflow.md">>), completeness_points[1]),
                     HasReadme(d), completeness_points[2]),
                     Glob(d, "py") # << >> \/ Glob(d, "ps1") # << >>, completeness_points[3]),
                 FMul(FDiv(FromInt(ExistingDirs(d)), FromInt(3)), completeness_points[4])),
            GlobPat(d, "test_*.py") # << >>, completeness_points[5]),
            Glob(d, "json") # << >> \/ Glob(d, "yaml") # << >>, completeness_points[6])))

_check_usage_guidance(d) ==
    ScanCaught(Glob(d, "md"), LAMBDA f :
        AnyIn({"zh:shiyong-zhidao", "zh:kuaisu-kaishi", "Getting Started",
               "zh:shiyong-fangfa"}, Content(f)))

_check_example_code(d) == ScanCaught(Glob(d, "md"), LAMBDA f : HasFence(f))

_check_error_handling_docs(d) ==
    ScanCaught(SelectSeq(d.files, LAMBDA f : f.ext \in {"md", "py", "ps1"}),
        LAMBDA f : AnyIn({"zh:cuowu", "zh:yichang", "zh:guzhang", "Error",
                          "Exception", "Troubleshooting"}, Content(f)))

_check_configuration_docs(d) ==
    ScanCaught(Glob(d, "md"), LAMBDA f :
        AnyIn({"zh:peizhi", "zh:shezhi", "Configuration", "Settings"}, Content(f)))

_check_faq_or_troubleshooting(d) ==
    ScanCaught(Glob(d, "md"), LAMBDA f :
        AnyIn({"FAQ", "zh:guzhang-paichu", "zh:changjian-wenti", "Troubleshooting",
               "zh:wenti-jieda"}, Content(f)))

UsabilityPlugin_assess(d) ==
    IF ~validate_workflow_dir(d) THEN Scored(FZero)
    ELSE Final(CheckSum(<<
        Check(_check_usage_guidance(d), usability_points[1]),
        Check(_check_example_code(d), usability_points[2]),
        Check(_check_error_handling_docs(d), usability_points[3]),
        Check(_check_configuration_docs(d), usability_points[4]),
        Check(_check_faq_or_troubleshooting(d), usability_points[5]) >>, FZero))

\* comment_ratio >= 0.1 earns the points, a lower ratio its share of them
CommentScore(comment_ratio, points) ==
    IF FGe(comment_ratio, Dec(1, 10)) THEN points
    ELSE FMul(FDiv(comment_ratio, Dec(1, 10)), points)

_check_code_comment_ratio(python_files) ==
    IF python_files = << >> \/ SumOver(Readable(python_files), "nlines") = 0 THEN FZero
    ELSE CommentScore(FDiv(FromInt(SumOver(Readable(python_files), "ncomment")),
                           FromInt(SumOver(Readable(python_files), "nlines"))),
                      maintainability_points[1])

OODesignScore(python_files) ==
    IF python_files = << >> THEN FZero
    ELSE PyMin(maintainability_points[2],
               Credit(Credit(Credit(Credit(FZero,
                   "class" \in OOFeatures(python_files), Dec(125, 100)),
                   "class(" \in OOFeatures(python_files), Dec(5, 10)),
                   "method" \in OOFeatures(python_files), Dec(5, 10)),
                   "decorator" \in OOFeatures(python_files), Dec(25, 100)))

_check_version_control_info(d) ==
    IF ScanCaught(Glob(d, "md"), LAMBDA f :
           AnyIn({"zh:banben", "version", "v1.", "v2.", "zh:gengxin-rizhi", "changelog"},
                 Lower(Content(f)))) = "found"
    THEN "found"
    ELSE ScanCaught(Glob(d, "py"), LAMBDA f :
             AnyIn({"__version__", "version =", "version:", "v1.", "v2."}, Lower(Content(f))))

_check_logging_mechanism(d) ==
    ScanCaught(Glob(d, "py"), LAMBDA f :
        AnyIn({"logging", "logger", "log(", ".info(", ".debug(", ".warning(", ".error("},
              Content(f)))

MaintainabilityPlugin_assess(d) ==
    IF ~validate_workflow_dir(d) THEN Scored(FZero)
    ELSE Final(CheckSum(<<
        Check("found", _check_code_comment_ratio(InScope(Glob(d, "py")))),
        Check("found", OODesignScore(InScope(Glob(d, "py")))),
        Check(_check_version_control_info(d), maintainability_points[3]),
        Check(_check_logging_mechanism(d), maintainability_points[4]) >>, FZero))

\* README.md in the root with at least 5 non-blank lines
_check_readme_exists(d) ==
    \E f \in Range(d.files) :
        f.dirs = << >> /\ f.name = "README.md" /\ f.read = "ok" /\ Len(f.lines) >= 5

\* At least 2 of the 3 sections occur in the readable documents
_check_documentation_structure(md_files) ==
    Cardinality({sec \in {"zh:mubiao", "zh:shiyong", "zh:buzhou"} :
                    \E f \in Range(Readable(md_files)) : In(sec, Content(f))}) >= 2

\* count >= len(files) * share
AtLeastShare(count, files, share) ==
    files # << >> /\ FGe(FromInt(count), FMul(FromInt(Len(files)), share))

_check_code_documentation(python_files) ==
    AtLeastShare(Len(SelectSeq(Readable(python_files),
                               LAMBDA f : "docstring" \in f.kw \/ f.nhash >= 10)),
                 python_files, Dec(5, 10))

_check_documentation_freshness(md_files) ==
    AtLeastShare(Len(SelectSeq(Readable(md_files), LAMBDA f :
                         AnyIn({"2025", "zh:gengxin-shijian", "Last Updated", "Updated:",
                                "zh:xiugai-shijian", "date"}, Content(f)))),
                 md_files, Dec(3, 10))

DocumentationPlugin_assess(d) ==
    IF ~validate_workflow_dir(d) THEN Scored(FZero)
    ELSE Final(CheckSum(<<
        Check(Flag(_check_readme_exists(d)), documentation_points[1]),
        Check(Flag(_check_documentation_structure(InScope(Glob(d, "md")))),
              documentation_points[2]),
        Check(Flag(_check_code_documentation(InScope(Glob(d, "py")))),
              documentation_points[3]),
        Check(Flag(_check_documentation_freshness(InScope(Glob(d, "md")))),
              documentation_points[4]) >>, FZero))

\* The directories below the root, as entries a glob yields
DirEntries(d) ==
    {File(n, << >>, "") : n \in d.subdirs}
    \cup UNION {{File(f.dirs[i], SubSeq(f.dirs, 1, i - 1), "") : i \in 1..Len(f.dirs)} :
                   f \in Range(d.files)}

_check_configuration_support(d) ==
    \/ \E f \in Range(InScope(d.files)) :
          f.ext \in {"json", "yaml", "yml", "toml", "ini"} \/ "*config*" \in f.pat
    \/ \E e \in DirEntries(d) : e.name = "config" /\ ~should_exclude_file(e)

_check_template_system(d) ==
    \/ \E f \in Range(InScope(d.files)) :
          f.pat \cap {"template*", "*template*", "*.template"} # {}
    \/ \E e \in DirEntries(d) : e.name \in {"template", "templates"} /\ ~should_exclude_file(e)

_check_plugin_extensibility(d) ==
    IF ScanCaught(Glob(d, "py"), LAMBDA f :
           AnyIn({"plugin", "Plugin", "extend", "extension", "hook", "Hook", "registry",
                  "Registry", "factory", "Factory", "interface", "Interface", "abc.ABC",
                  "abstractmethod"}, Content(f))) = "found"
    THEN "found"
    ELSE Flag(\E e \in DirEntries(d) :
                 e.dirs = << >> /\ e.name \in {"plugins", "extensions", "addons"})

ExtensibilityPlugin_assess(d) ==
    IF ~validate_workflow_dir(d) THEN Scored(FZero)
    ELSE Final(CheckSum(<<
        Check(Flag(_check_configuration_support(d)), extensibility_points[1]),
        Check(Flag(_check_template_system(d)), extensibility_points[2]),
        Check(_check_plugin_extensibility(d), extensibility_points[3]) >>, FZero))

(***************************************************************************)
(* get_assessment_details of the five standard plugins.  A check adds its  *)
(* name to passed_checks or to failed_checks, and to recommendations when  *)
(* it gives advice; the texts are functions of the names.                  *)
(***************************************************************************)
\* verdict: "pass", "partial" (passed, with advice), "fail", "none" (no entry)
Verdict(check, verdict) == [check |-> check, verdict |-> verdict]

\* if check: passed_checks.append(..) else: failed_checks.append(..); recommendations.append(..)
PassFail(check, holds) == Verdict(check, IF holds THEN "pass" ELSE "fail")

\* if score >= 2.5: passed; elif score > 0: passed, with advice; else: failed
Graded(check, score, points) ==
    Verdict(check, IF FGe(score, points) THEN "pass"
                   ELSE IF FGt(score, FZero) THEN "partial" ELSE "fail")

\* The names of the checks whose verdict is one of a set, in order
Named(verdicts, wanted) ==
    [i \in DOMAIN SelectSeq(verdicts, LAMBDA c : c.verdict \in wanted) |->
        SelectSeq(verdicts, LAMBDA c : c.verdict \in wanted)[i].check]

\* The dict get_assessment_details returns
Details(score, verdicts) ==
    [score |-> score,
     passed_checks |-> Named(verdicts, {"pass", "partial"}),
     failed_checks |-> Named(verdicts, {"fail"}),
     recommendations |-> Named(verdicts, {"partial", "fail"})]

\* The dict returned when validate_workflow_dir fails
InvalidDirDetails ==
    [score |-> FZero, passed_checks |-> << >>, failed_checks |-> <<"workflow_dir_invalid">>,
     recommendations |-> <<"workflow_dir_invalid">>]

CompletenessPlugin_details(d) ==
    IF ~validate_workflow_dir(d) THEN InvalidDirDetails
    ELSE Details(CompletenessPlugin_assess(d).score, <<
        PassFail("main_template", AnyOfGenerators(<<"*_template.md", "*_workflow.md">>)),
        PassFail("readme", HasReadme(d)),
        PassFail("scripts", Glob(d, "py") # << >> \/ Glob(d, "ps1") # << >>),
        Verdict("core_dirs_existing", IF ExistingDirs(d) > 0 THEN "pass" ELSE "none"),
        Verdict("core_dirs_missing", IF ExistingDirs(d) < 3 THEN "fail" ELSE "none"),
        PassFail("tests", GlobPat(d, "test_*.py") # << >>),
        PassFail("config", Glob(d, "json") # << >> \/ Glob(d, "yaml") # << >>) >>)

UsabilityPlugin_details(d) ==
    IF ~validate_workflow_dir(d) THEN InvalidDirDetails
    ELSE Details(UsabilityPlugin_assess(d).score, <<
        PassFail("usage_guidance", _check_usage_guidance(d) = "found"),
        PassFail("example_code", _check_example_code(d) = "found"),
        PassFail("error_handling_docs", _check_error_handling_docs(d) = "found"),
        PassFail("configuration_docs", _check_configuration_docs(d) = "found"),
        PassFail("faq_or_troubleshooting", _check_faq_or_troubleshooting(d) = "found") >>)

MaintainabilityPlugin_details(d) ==
    IF ~validate_workflow_dir(d) THEN InvalidDirDetails
    ELSE Details(MaintainabilityPlugin_assess(d).score, <<
        Graded("comment_ratio", _check_code_comment_ratio(InScope(Glob(d, "py"))),
               maintainability_points[1]),
        Graded("object_oriented_design", OODesignScore(InScope(Glob(d, "py"))),
               maintainability_points[2]),
        PassFail("version_control_info", _check_version_control_info(d) = "found"),
        PassFail("logging_mechanism", _check_logging_mechanism(d) = "found") >>)

DocumentationPlugin_details(d) ==
    IF ~validate_workflow_dir(d) THEN InvalidDirDetails
    ELSE Details(DocumentationPlugin_assess(d).score, <<
        PassFail("readme", _check_readme_exists(d)),
        PassFail("structure", _check_documentation_structure(InScope(Glob(d, "md")))),
        PassFail("code_documentation", _check_code_documentation(InScope(Glob(d, "py")))),
        PassFail("freshness", _check_documentation_freshness(InScope(Glob(d, "md")))) >>)

ExtensibilityPlugin_details(d) ==
    IF ~validate_workflow_dir(d) THEN InvalidDirDetails
    ELSE Details(ExtensibilityPlugin_assess(d).score, <<
        PassFail("configuration_support", _check_configuration_support(d)),
        PassFail("template_system", _check_template_system(d)),
        PassFail("plugin_extensibility", _check_plugin_extensibility(d) = "found") >>)

(***************************************************************************)
(* QualityAssessmentManager                                                *)
(***************************************************************************)
\* _register_standard_plugins: the five plugins in registration order
standard_plugins ==
    <<"completeness", "usability", "maintainability", "documentation", "extensibility">>

\* plugin.assess(workflow_dir) of the plugin registered under a name
Assess(plugin_name, d) ==
    CASE plugin_name = "completeness" -> CompletenessPlugin_assess(d)
      [] plugin_name = "usability" -> UsabilityPlugin_assess(d)
      [] plugin_name = "maintainability" -> MaintainabilityPlugin_assess(d)
      [] plugin_name = "documentation" -> DocumentationPlugin_assess(d)
      [] OTHER -> ExtensibilityPlugin_assess(d)

\* dict.update: a dict is a function from its keys
Update(dict, new) ==
    [k \in DOMAIN dict \cup DOMAIN new |-> IF k \in DOMAIN new THEN new[k] ELSE dict[k]]

\* The weights __init__ leaves: the defaults updated by custom_weights
ManagerWeights(custom_weights) == Update(QualityWeights, custom_weights)

\* self.plugins[plugin.name] = plugin: a new key goes last, a known key stays
register_plugin(plugins, plugin_name) ==
    IF plugin_name \in Range(plugins) THEN plugins ELSE Append(plugins, plugin_name)

unregister_plugin(plugins, plugin_name) == SelectSeq(plugins, LAMBDA n : n # plugin_name)

\* A plugin instance: the name it registers under and what its methods do:
\* "standard" (the standard plugin of that name), "assess_raises",
\* "details_raise" (get_assessment_details raises), "constant" (a plugin of
\* the caller's that scores 10.0)
Plugin(name, kind) == [name |-> name, kind |-> kind]

\* The values of self.plugins after _register_standard_plugins
standard_registry == [n \in Range(standard_plugins) |-> "standard"]

\* self.plugins[plugin.name] = plugin without the first plugin being replaced
store_plugin_keeping_first(registry, plugin) ==
    IF plugin.name \in DOMAIN registry THEN registry
    ELSE Update(registry, plugin.name :> plugin.kind)

\* self.plugins[plugin.name] = plugin: the instance under the name
store_plugin(registry, plugin) == Update(registry, plugin.name :> plugin.kind)

\* del self.plugins[plugin_name] when the name is registered
remove_plugin(registry, plugin_name) ==
    [n \in DOMAIN registry \ {plugin_name} |-> registry[n]]

\* update_weights only warns about a total outside [0.8, 1.2]
update_weights(weights, new_weights) == Update(weights, new_weights)

\* The loop of assess_quality: a plugin that raises scores 0.0
ScoreOrZero(r) == IF r.raised THEN FZero ELSE r.score

\* plugin.get_assessment_details(workflow_dir) of the standard plugin of a name
AssessmentDetails(plugin_name, d) ==
    CASE plugin_name = "completeness" -> CompletenessPlugin_details(d)
      [] plugin_name = "usability" -> UsabilityPlugin_details(d)
      [] plugin_name = "maintainability" -> MaintainabilityPlugin_details(d)
      [] plugin_name = "documentation" -> DocumentationPlugin_details(d)
      [] OTHER -> ExtensibilityPlugin_details(d)

\* The detail the except branch records
FailedDetails ==
    [score |-> FZero, passed_checks |-> << >>, failed_checks |-> <<"plugin_failed">>,
     recommendations |-> <<"check_plugin_configuration">>]

\* An except branch that an exception of get_assessment_details does not reach
FailsInAssessOnly(kind, r) == kind = "assess_raises" \/ r.raised

\* Whether the try block of a plugin is left by an exception: assess raises,
\* or get_assessment_details does after the score was stored
Fails(kind, r) == kind # "standard" \/ r.raised

\* What the standard plugin of each name gives on a path: the value of
\* assess (or its raise) and the dict of get_assessment_details
PluginResults(d) ==
    [n \in Range(standard_plugins) |->
        [assess |-> Assess(n, d), details |-> AssessmentDetails(n, d)]]

\* A plugin of kind "constant" scores 10.0 on every path, with one passed check
ConstantDetails ==
    [score |-> FromInt(10), passed_checks |-> <<"constant_check">>, failed_checks |-> << >>,
     recommendations |-> << >>]

dimension_scores(plugins, registry, results) ==
    [n \in Range(plugins) |->
        IF registry[n] = "constant" THEN ConstantDetails.score
        ELSE IF Fails(registry[n], results[n].assess) THEN FZero
        ELSE ScoreOrZero(results[n].assess)]

plugin_details(plugins, registry, results) ==
    [n \in Range(plugins) |->
        IF registry[n] = "constant" THEN ConstantDetails
        ELSE IF Fails(registry[n], results[n].assess) THEN FailedDetails
        ELSE results[n].details]

\* self.weights.get(dimension, 0.0)
WeightOf(weights, dimension) ==
    IF dimension \in DOMAIN weights THEN weights[dimension] ELSE FZero

\* The loop of _calculate_weighted_score over the dict in insertion order
RECURSIVE WeightLoop(_, _, _, _)
WeightLoop(order, scores, weights, acc) ==
    IF order = << >> THEN acc
    ELSE WeightLoop(Tail(order), scores, weights,
                    [total_score |-> FAdd(acc.total_score,
                                          FMul(scores[Head(order)], WeightOf(weights, Head(order)))),
                     total_weight |-> FAdd(acc.total_weight, WeightOf(weights, Head(order)))])

\* Normalise unless the weights total 1.0 (or nothing positive), then min(10.0, .)
Normalise(t) ==
    PyMin(FromInt(10),
          IF FGt(t.total_weight, FZero) /\ ~FEq(t.total_weight, FromInt(1))
          THEN FDiv(t.total_score, t.total_weight) ELSE t.total_score)

_calculate_weighted_score(order, scores, weights) ==
    Normalise(WeightLoop(order, scores, weights, [total_score |-> FZero, total_weight |-> FZero]))

\* Manager grades: "zh:youxiu" (excellent), "zh:lianghao", "zh:zhongdeng",
\* "zh:yiban", "zh:xuyao-gaijin" (needs improvement)
ManagerGrade(score) ==
    IF FGe(score, FromInt(9)) THEN "zh:youxiu"
    ELSE IF FGe(score, FromInt(8)) THEN "zh:lianghao"
    ELSE IF FGe(score, FromInt(7)) THEN "zh:zhongdeng"
    ELSE IF FGe(score, FromInt(6)) THEN "zh:yiban"
    ELSE "zh:xuyao-gaijin"

\* The result dict of assess_quality, from the scores and their total
Result(scores, details, total_score, weights) ==
    [overall_score |-> total_score, grade |-> ManagerGrade(total_score),
     dimension_scores |-> scores, plugin_details |-> details, weights |-> weights]

Totalled(plugins, scores, details, weights) ==
    Result(scores, details, _calculate_weighted_score(plugins, scores, weights), weights)

\* A recommendation text: the two texts shared by all plugins, or the text of
\* one check of one plugin
Recommendation(plugin_name, check) ==
    IF check \in {"workflow_dir_invalid", "check_plugin_configuration"} THEN <<check>>
    ELSE <<plugin_name, check>>

\* all_recommendations after the loop over plugin_details
RECURSIVE all_recommendations(_, _)
all_recommendations(order, details) ==
    IF order = << >> THEN << >>
    ELSE [i \in DOMAIN details[Head(order)].recommendations |->
             Recommendation(Head(order), details[Head(order)].recommendations[i])]
         \o all_recommendations(Tail(order), details)

RECURSIVE total_checks(_, _, _)
total_checks(order, details, key) ==
    IF order = << >> THEN 0
    ELSE Len(details[Head(order)][key]) + total_checks(Tail(order), details, key)

\* A max that keeps the last of the keys with the largest score
RECURSIVE LastBest(_, _, _)
LastBest(order, scores, best) ==
    IF order = << >> THEN best
    ELSE LastBest(Tail(order), scores,
                  IF FGe(scores[Head(order)], scores[best]) THEN Head(order) ELSE best)

\* max(dimension_scores, key=dimension_scores.get): the first key with the largest score
RECURSIVE FirstBest(_, _, _)
FirstBest(order, scores, best) ==
    IF order = << >> THEN best
    ELSE FirstBest(Tail(order), scores,
                   IF FGt(scores[Head(order)], scores[best]) THEN Head(order) ELSE best)

\* min(dimension_scores, key=dimension_scores.get): the first key with the smallest score
RECURSIVE FirstWorst(_, _, _)
FirstWorst(order, scores, worst) ==
    IF order = << >> THEN worst
    ELSE FirstWorst(Tail(order), scores,
                    IF FLt(scores[Head(order)], scores[worst]) THEN Head(order) ELSE worst)

\* The distinct elements of a list, by first occurrence
RECURSIVE Distinctly(_)
Distinctly(list) ==
    IF list = << >> THEN << >>
    ELSE LET front == Distinctly(SubSeq(list, 1, Len(list) - 1))
         IN  IF list[Len(list)] \in Range(front) THEN front
             ELSE Append(front, list[Len(list)])

Reversed(list) == [i \in DOMAIN list |-> list[Len(list) + 1 - i]]

\* A listing that keeps repeated elements
ListKeepingRepeats(list, hash_order) ==
    IF hash_order = "forward" THEN list ELSE Reversed(list)

\* list(set(..)): the distinct elements in an order the hashes of the run decide;
\* two orders stand for them
HashOrders == {"forward", "backward"}

ListOfSet(list, hash_order) ==
    IF hash_order = "forward" THEN Distinctly(list) ELSE Reversed(Distinctly(list))

FirstFive(list) == SubSeq(list, 1, IF Len(list) < 5 THEN Len(list) ELSE 5)

_generate_summary(order, scores, details, hash_order) ==
    [total_checks |-> total_checks(order, details, "passed_checks")
                      + total_checks(order, details, "failed_checks"),
     passed_checks |-> total_checks(order, details, "passed_checks"),
     failed_checks |-> total_checks(order, details, "failed_checks"),
     best_dimension |-> IF order = << >> THEN "zh:wu"
                        ELSE FirstBest(Tail(order), scores, Head(order)),
     worst_dimension |-> IF order = << >> THEN "zh:wu"
                         ELSE FirstWorst(Tail(order), scores, Head(order)),
     top_recommendations |-> FirstFive(ListOfSet(all_recommendations(order, details),
                                                 hash_order))]

\* The result with its "summary" key
Summarised(result, order, hash_order) ==
    [k \in DOMAIN result \cup {"summary"} |->
        IF k = "summary"
        THEN _generate_summary(order, result.dimension_scores, result.plugin_details,
                               hash_order)
        ELSE result[k]]

\* The loop over self.plugins and the aggregation, from the plugins' results
Aggregated(plugins, registry, weights, results) ==
    Totalled(plugins, dimension_scores(plugins, registry, results),
             plugin_details(plugins, registry, results), weights)

\* QualityAssessmentManager.assess_quality on an existing path
ManagerAssessQuality(plugins, registry, weights, d) ==
    Aggregated(plugins, registry, weights, PluginResults(d))

(***************************************************************************)
(* The files and workflow paths the model runs on                          *)
(***************************************************************************)
AllSections == {required_sections[i] : i \in DOMAIN required_sections}

\* A complete main workflow document
MdTemplate ==
    [File("flow_template.md", << >>, "md") EXCEPT
        !.pat = {"*_template.md", "*template*"},
        !.lines = << HLine(1, "Intro", AllSections),
                     HLine(2, "Quick Start", {"zh:kuaisu-kaishi", "zh:mubiao", "zh:shiyong-fangfa"}),
                     LinkLine("quick-start"),
                     StepLine(1), CheckLine, RefLine(<<"tools", "run.py">>),
                     StepLine(2), CheckLine,
                     FenceLine("python", 0), TextLine({"zh:peizhi"}), FenceLine("", 0),
                     TextLine({"FAQ", "zh:cuowu", "Version", "zh:gengxin-shijian"}) >>]

\* A README with a heading jump, a broken link, a bare fence, a missing
\* script, misnumbered steps and two of the four sections
MdReadme ==
    [File("README.md", << >>, "md") EXCEPT
        !.lines = << HLine(1, "Intro", {"zh:gongzuoliu-jianjie", "zh:mulu-jiegou"}),
                     HLine(3, "Setup (Advanced)", {}),
                     LinkLine("missing"), LinkLine("-intro-"),
                     FenceLine("", 0), HLine(1, "Quick Start", {}), FenceLine("", 0),
                     StepLine(1), StepLine(3), RefLine(<<"run.sh">>),
                     FileLinkLine("guide.md") >>]

MdUndecodable == [File("workflow.md", << >>, "md") EXCEPT !.read = "decode"]

\* A broken internal link, then a link to a file whose name is too long
MdLongLink ==
    [File("links.md", << >>, "md") EXCEPT
        !.lines = << HLine(1, "Intro", {}), LinkLine("missing"), FileLinkLine(LongName) >>]

\* Under temp/, which the default patterns exclude
MdTemp ==
    [File("old.md", <<"temp">>, "md") EXCEPT
        !.lines = << HLine(2, "Intro", {}), LinkLine("missing") >>]

MdGuide ==
    [File("guide.md", <<"docs">>, "md") EXCEPT
        !.lines = << HLine(1, "Intro", {"zh:shiyong-zhidao"}), LinkLine("Quick%2DStart"),
                     FenceLine("", 1), TextLine({"zh:guzhang-paichu"}), FenceLine("", 1) >>]

PyRun ==
    [File("run.py", <<"tools">>, "py") EXCEPT
        !.kw = {"class", "class(", "method", "decorator", "logger.info(", "docstring",
                "    def run(", "Plugin", "validate", "with open", "lru_cache", "unittest",
                "__version__", "ValueError"},
        !.nlines = 20, !.ncomment = 4, !.nhash = 4, !.imports = <<"os", "requests">>,
        !.commands = 1]

PyPlain == [File("util.py", << >>, "py") EXCEPT !.kw = {"secret-literal"}, !.nlines = 12, !.ncomment = 1]

\* One class with a method, a logger and a version; 2 comment lines in 40
PySparse ==
    [File("sparse.py", << >>, "py") EXCEPT
        !.kw = {"class", "method", "    def run(", "logger.info(", "__version__"},
        !.nlines = 40, !.ncomment = 2, !.nhash = 2, !.imports = <<"logging", "yaml">>]

\* Under temp/, which the default patterns exclude: a documented class with
\* a logger, 5 comment lines in 10
PyTemp ==
    [File("scratch.py", <<"temp">>, "py") EXCEPT
        !.kw = {"class", "method", "    def run(", "logger.info(", "docstring", "Plugin"},
        !.nlines = 10, !.ncomment = 5, !.nhash = 4, !.imports = <<"numpy">>]

PyBroken ==
    [File("broken.py", << >>, "py") EXCEPT
        !.parse = "error", !.errline = 3, !.nlines = 5, !.imports = <<"sys">>]

PyUndecodable == [File("blob.py", << >>, "py") EXCEPT !.read = "decode"]

PyTest ==
    [File("test_run.py", <<"tools">>, "py") EXCEPT
        !.pat = {"test_*.py"}, !.kw = {"    def run(", "unittest"}, !.nlines = 8,
        !.imports = <<"unittest">>]

JsonOk == [File("config.json", << >>, "json") EXCEPT !.pat = {"*config*"}]

JsonBroken == [File("data.json", << >>, "json") EXCEPT !.parse = "error", !.errline = 2]

JsonUndecodable == [File("blob.json", << >>, "json") EXCEPT !.read = "decode"]

Ps1Ok == [File("setup.ps1", <<"tools">>, "ps1") EXCEPT !.modules = 1, !.kw = {"zh:yichang"}]

Ps1Fail == [File("bad.ps1", << >>, "ps1") EXCEPT !.run = "fail"]

Ps1Timeout == [File("slow.ps1", << >>, "ps1") EXCEPT !.run = "timeout"]

Ps1Error == [File("odd.ps1", << >>, "ps1") EXCEPT !.run = "error", !.read = "denied"]

Requirements ==
    [File("requirements.txt", << >>, "txt") EXCEPT !.pk = <<"pinned", "plain", "bad">>]

RequirementsDenied == [File("requirements.txt", << >>, "txt") EXCEPT !.read = "denied"]

Gitignore == File(".gitignore", << >>, "")

ConfigYaml == [File("config.yaml", << >>, "yaml") EXCEPT !.pat = {"*config*"}, !.kw = {"security"}]

Catalogue ==
    { MdTemplate, MdReadme, MdUndecodable, MdLongLink, MdTemp, MdGuide, PyRun, PyPlain, PySparse, PyTemp,
      PyBroken,
      PyUndecodable, PyTest, JsonOk, JsonBroken, JsonUndecodable, Ps1Ok, Ps1Fail,
      Ps1Timeout, Ps1Error, Requirements, RequirementsDenied, Gitignore, ConfigYaml }

Dir(files, subdirs) == [kind |-> "dir", files |-> files, subdirs |-> subdirs]

Missing == [kind |-> "missing", files |-> << >>, subdirs |-> {}]

RegularFile == [kind |-> "file", files |-> << >>, subdirs |-> {}]

\* A directory satisfying every quality signal
FullDir ==
    Dir(<<MdTemplate, [MdReadme EXCEPT !.lines = MdTemplate.lines], MdGuide, PyRun, PyTest,
          JsonOk, Gitignore>>, {"templates", "docs", "tools"})

\* Several failing files together
MixedDir == Dir(<<MdReadme, MdTemp, PyBroken, PyUndecodable, JsonBroken, Ps1Fail, Requirements>>, {"docs"})

\* A readable workflow.md with one of the four sections and no steps
MdWorkflow ==
    [File("workflow.md", << >>, "md") EXCEPT
        !.lines = << HLine(1, "Intro", {"zh:gongzuoliu-jianjie"}), CheckLine >>]

\* Two and three candidates for the main workflow document, the README listed
\* first; the second with a requirements file and a test script
WorkflowAndReadmeDir == Dir(<<MdReadme, MdWorkflow>>, {})
ThreeMainDir == Dir(<<MdReadme, MdWorkflow, MdTemplate, Requirements, PyTest>>, {"tools"})

\* The directories listing at most MaxFiles files of the catalogue
MaxFiles == 1

RECURSIVE FileLists(_)
FileLists(n) ==
    IF n = 0 THEN {<< >>}
    ELSE LET shorter == FileLists(n - 1)
         IN  shorter \cup {Append(l, f) : l \in shorter, f \in Catalogue}

Distinct(l) == \A i, j \in DOMAIN l : i # j => PathOf(l[i]) # PathOf(l[j])

Paths ==
    {Missing, RegularFile, FullDir, MixedDir, WorkflowAndReadmeDir, ThreeMainDir}
    \cup {Dir(l, {}) : l \in {x \in FileLists(MaxFiles) : Distinct(x)}}

(***************************************************************************)
(* Validator instances: WorkflowValidator(exclude_patterns, enable_plugins)*)
(* with the plugin configuration PluginManager.load_config finds           *)
(***************************************************************************)
\* load_config without a configuration file
DefaultConfig ==
    [enable_plugins |-> TRUE, enabled_plugins |-> {"security", "performance", "test_coverage"},
     dimension_overrides |-> << >>]

\* enable_plugins = False, or the plugin module is not importable
PluginsOff == [DefaultConfig EXCEPT !.enable_plugins = FALSE]

\* A configuration file with dimension overrides: one that takes effect, one
\* disabled, one with lists of different lengths, one whose plugin is not
\* enabled, one for a dimension the validator does not have
OverrideConfig ==
    [DefaultConfig EXCEPT
        !.enabled_plugins = {"security", "test_coverage"},
        !.dimension_overrides =
            << [dimension |-> "maintainability", enabled |-> TRUE,
                plugins |-> <<"security", "performance", "test_coverage">>,
                weights |-> <<FromInt(2), FromInt(1), FromInt(1)>>],
               [dimension |-> "usability", enabled |-> FALSE,
                plugins |-> <<"security">>, weights |-> <<FromInt(1)>>],
               [dimension |-> "documentation", enabled |-> TRUE,
                plugins |-> <<"security", "test_coverage">>, weights |-> <<FromInt(1)>>],
               [dimension |-> "extensibility", enabled |-> TRUE,
                plugins |-> <<"performance">>, weights |-> <<FromInt(1)>>],
               [dimension |-> "reliability", enabled |-> TRUE,
                plugins |-> <<"security">>, weights |-> <<FromInt(1)>>] >>]

Instances ==
    { [exclude_patterns |-> default_patterns, config |-> DefaultConfig],
      [exclude_patterns |-> default_patterns \o <<DirPattern("docs")>>, config |-> PluginsOff],
      [exclude_patterns |-> default_patterns, config |-> OverrideConfig] }

(***************************************************************************)
(* State                                                                   *)
(***************************************************************************)
MaxCalls == 2

MaxAssessments == 1

MaxChanges == 2

\* PluginResults of every path of the model
StandardResults == [path \in Paths |-> PluginResults(path)]

VARIABLES
    validation_results,   \* WorkflowValidator.validation_results
    exclude_patterns,     \* WorkflowValidator.exclude_patterns
    config,               \* WorkflowValidator.enable_plugins and plugin_manager.config
    pc,                   \* where validate_workflow stands: "idle" between calls
    workflow_path,        \* the argument of the call in progress (or of the last call)
    stages,               \* the stages the call has run so far, in order
    before,               \* validation_results when the call was made
    outcome,              \* how the last call ended: what it returned, or the exception
    calls,                \* validate_workflow / assess calls made so far
    plugins,              \* QualityAssessmentManager.plugins: the names in dict order
    registry,             \* QualityAssessmentManager.plugins: the instance under each name
    log,                  \* the register_plugin and unregister_plugin calls made so far
    plugin_results,       \* what the standard plugins give on each path: the paths'
                          \* contents do not change, so neither do these
    weights,              \* QualityAssessmentManager.weights
    changes               \* registrations and weight updates made so far

vars == <<validation_results, exclude_patterns, config, pc, workflow_path, stages,
          before, outcome, calls, plugins, registry, log, plugin_results, weights,
          changes>>

validator == <<validation_results, exclude_patterns, config, pc, stages, before>>

manager == <<plugins, registry, log, plugin_results, weights, changes>>

NoOutcome == [kind |-> "none", report |-> << >>]
Returned(report) == [kind |-> "report", report |-> <<report>>]
Raises(exception) == [kind |-> exception, report |-> << >>]

(***************************************************************************)
(* WorkflowValidator.validate_workflow, called any number of times on one  *)
(* instance                                                                *)
(***************************************************************************)
Init ==
    /\ \E inst \in Instances :
          /\ exclude_patterns = inst.exclude_patterns
          /\ config = inst.config
    /\ validation_results = InitialResults
    /\ pc = "idle"
    /\ workflow_path = Missing
    /\ stages = << >>
    /\ before = InitialResults
    /\ outcome = NoOutcome
    /\ calls = 0
    /\ plugins = standard_plugins
    /\ registry = standard_registry
    /\ log = << >>
    /\ plugin_results = StandardResults
    /\ weights = QualityWeights
    /\ changes = 0

\* validate_workflow with the reset made before the path checks
CallResettingFirst ==
    /\ pc = "idle"
    /\ calls < MaxCalls
    /\ \E path \in Paths :
          /\ workflow_path' = path
          /\ before' = validation_results
          /\ stages' = << >>
          /\ calls' = calls + 1
          /\ validation_results' = _reset_results(validation_results)
          /\ \/ /\ path.kind = "missing"
                /\ outcome' = Raises("FileNotFoundError")
                /\ UNCHANGED pc
             \/ /\ path.kind = "file"
                /\ outcome' = Raises("NotADirectoryError")
                /\ UNCHANGED pc
             \/ /\ path.kind = "dir"
                /\ outcome' = NoOutcome
                /\ pc' = "syntax"
    /\ UNCHANGED <<exclude_patterns, config, manager>>

\* validate_workflow(path) up to the first stage: the path checks, then the reset
Call ==
    /\ pc = "idle"
    /\ calls < MaxCalls
    /\ \E path \in Paths :
          /\ workflow_path' = path
          /\ before' = validation_results
          /\ stages' = << >>
          /\ calls' = calls + 1
          /\ \/ /\ path.kind = "missing"
                /\ outcome' = Raises("FileNotFoundError")
                /\ UNCHANGED <<validation_results, pc>>
             \/ /\ path.kind = "file"
                /\ outcome' = Raises("NotADirectoryError")
                /\ UNCHANGED <<validation_results, pc>>
             \/ /\ path.kind = "dir"
                /\ validation_results' = _reset_results(validation_results)
                /\ outcome' = NoOutcome
                /\ pc' = "syntax"
    /\ UNCHANGED <<exclude_patterns, config, manager>>

\* A stage ran: its results are stored; an exception ends the call
Ran(stage, r, next) ==
    /\ validation_results' = r.vr
    /\ stages' = Append(stages, stage)
    /\ IF r.raised
       THEN pc' = "idle" /\ outcome' = Raises("Exception")
       ELSE pc' = next /\ UNCHANGED outcome
    /\ UNCHANGED <<exclude_patterns, config, workflow_path, before, calls, manager>>

Syntax ==
    /\ pc = "syntax"
    /\ Ran("syntax", validate_syntax(validation_results, workflow_path, exclude_patterns),
           "logic")

Logic ==
    /\ pc = "logic"
    /\ Ran("logic", validate_logic(validation_results, workflow_path), "dependencies")

Dependencies ==
    /\ pc = "dependencies"
    /\ Ran("dependencies", Ok(validate_dependencies(validation_results, workflow_path)),
           "quality")

Quality ==
    /\ pc = "quality"
    /\ Ran("quality",
           assess_quality(validation_results, workflow_path, exclude_patterns, config),
           "report")

Report ==
    /\ pc = "report"
    /\ outcome' = Returned(_generate_validation_report(validation_results))
    /\ pc' = "idle"
    /\ UNCHANGED <<validation_results, exclude_patterns, config, workflow_path, stages,
                   before, calls, manager>>

Next == Call \/ Syntax \/ Logic \/ Dependencies \/ Quality \/ Report

Spec == Init /\ [][Next]_vars

(***************************************************************************)
(* QualityAssessmentManager: plugins registered and unregistered, weights  *)
(* updated, a path assessed by the manager or by one plugin directly       *)
(***************************************************************************)
\* custom_weights: None, or a dict for one dimension
CustomWeights == {EmptyDict, "documentation" :> Dec(2, 10)}

\* Arguments of update_weights
NewWeights ==
    { "completeness" :> FNeg(FromInt(1)),
      ("completeness" :> Dec(4, 10)) @@ ("usability" :> Dec(15, 100)) }

\* The plugin instances a caller registers
RegistrablePlugins ==
    {Plugin(n, "standard") : n \in Range(standard_plugins)}
    \cup {Plugin("usability", "assess_raises"), Plugin("documentation", "details_raise")}

InitManager ==
    /\ plugins = standard_plugins
    /\ registry = standard_registry
    /\ log = << >>
    /\ plugin_results = StandardResults
    /\ \E custom_weights \in CustomWeights : weights = ManagerWeights(custom_weights)
    /\ changes = 0
    /\ validation_results = InitialResults
    /\ exclude_patterns = default_patterns
    /\ config = DefaultConfig
    /\ pc = "idle"
    /\ workflow_path = Missing
    /\ stages = << >>
    /\ before = InitialResults
    /\ outcome = NoOutcome
    /\ calls = 0

\* A call that changes the manager and returns None
Changed ==
    /\ changes < MaxChanges
    /\ changes' = changes + 1
    /\ outcome' = NoOutcome
    /\ UNCHANGED <<validator, workflow_path, calls, plugin_results>>

Register ==
    /\ \E plugin \in RegistrablePlugins :
          /\ plugins' = register_plugin(plugins, plugin.name)
          /\ registry' = store_plugin(registry, plugin)
          /\ log' = Append(log, [op |-> "register", name |-> plugin.name,
                                 kind |-> plugin.kind])
    /\ Changed
    /\ UNCHANGED weights

Unregister ==
    /\ \E plugin_name \in Range(standard_plugins) :
          /\ plugins' = unregister_plugin(plugins, plugin_name)
          /\ registry' = remove_plugin(registry, plugin_name)
          /\ log' = Append(log, [op |-> "unregister", name |-> plugin_name,
                                 kind |-> "none"])
    /\ Changed
    /\ UNCHANGED weights

UpdateWeights ==
    /\ \E new_weights \in NewWeights : weights' = update_weights(weights, new_weights)
    /\ Changed
    /\ UNCHANGED <<plugins, registry, log>>

Assessment(result) == [kind |-> "assessment", report |-> <<result>>]

\* manager.assess_quality(path): ManagerAssessQuality(.., path), the plugins'
\* results taken from plugin_results
AssessQuality ==
    /\ calls < MaxAssessments
    /\ calls' = calls + 1
    /\ \E path \in Paths, hash_order \in HashOrders :
          /\ workflow_path' = path
          /\ outcome' = IF path.kind = "missing" THEN Raises("FileNotFoundError")
                        ELSE Assessment(Summarised(Aggregated(plugins, registry, weights,
                                                              plugin_results[path]),
                                                   plugins, hash_order))
    /\ UNCHANGED <<validator, manager>>

\* What a direct call of assess gives its caller
Answer(plugin_name, r) ==
    IF r.raised THEN Raises("Exception")
    ELSE [kind |-> "score", report |-> <<[plugin |-> plugin_name, score |-> r.score]>>]

\* plugin.assess(path), called on a plugin itself
DirectAssess ==
    /\ calls < MaxAssessments
    /\ calls' = calls + 1
    /\ \E plugin_name \in Range(standard_plugins), path \in Paths :
          /\ workflow_path' = path
          /\ outcome' = Answer(plugin_name, Assess(plugin_name, path))
    /\ UNCHANGED <<validator, manager>>

\* What a direct call of get_assessment_details gives its caller
Detailed(plugin_name, details) ==
    [kind |-> "details", report |-> <<[plugin |-> plugin_name, details |-> details]>>]

\* plugin.get_assessment_details(path), called on a plugin itself
DirectDetails ==
    /\ calls < MaxAssessments
    /\ calls' = calls + 1
    /\ \E plugin_name \in Range(standard_plugins), path \in Paths :
          /\ workflow_path' = path
          /\ outcome' = Detailed(plugin_name, AssessmentDetails(plugin_name, path))
    /\ UNCHANGED <<validator, manager>>

NextManager == Register \/ Unregister \/ UpdateWeights \/ AssessQuality

SpecManager == InitManager /\ [][NextManager]_vars

(***************************************************************************)
(* QualityAssessmentManager with a plugin under a name of no weight, and   *)
(* with weights none of which is positive                                  *)
(***************************************************************************)
\* Arguments of update_weights that leave no positive weight
NonPositiveWeights ==
    { [n \in Range(standard_plugins) |-> FZero],
      [n \in Range(standard_plugins) |->
          IF n = "completeness" THEN FNeg(FromInt(1)) ELSE FZero] }

\* manager.register_plugin(plugin) for a plugin named "security"
RegisterUnweighted ==
    /\ plugins' = register_plugin(plugins, "security")
    /\ registry' = store_plugin(registry, Plugin("security", "constant"))
    /\ log' = Append(log, [op |-> "register", name |-> "security", kind |-> "constant"])
    /\ Changed
    /\ UNCHANGED weights

\* manager.update_weights(new_weights) with weights for the five dimensions
UpdateWeightsNonPositive ==
    /\ \E new_weights \in NonPositiveWeights :
          weights' = update_weights(weights, new_weights)
    /\ Changed
    /\ UNCHANGED <<plugins, registry, log>>

NextUnweighted == RegisterUnweighted \/ UpdateWeightsNonPositive \/ Unregister \/ AssessQuality

SpecUnweighted == InitManager /\ [][NextUnweighted]_vars

(***************************************************************************)
(* The standard plugins called on their own                                *)
(***************************************************************************)
NextPlugins == DirectAssess \/ DirectDetails

SpecPlugins == InitManager /\ [][NextPlugins]_vars

(***************************************************************************)
(* The anchor functions called on their own: heading titles and link       *)
(* anchors drawn from the texts of at most MaxTitle characters             *)
(***************************************************************************)
MaxTitle == 2

MaxGenerations == 2

TitleAlphabet == {"a", "B", " ", "-", "(", ")", ".", "#"}

RECURSIVE Texts(_)
Texts(n) ==
    IF n = 0 THEN {<< >>}
    ELSE Texts(n - 1) \cup {Append(t, c) : t \in Texts(n - 1), c \in TitleAlphabet}

\* Heading texts: the short ones, those of the catalogue and a few with
\* parentheses, punctuation, a symbol, an emoji and CJK
Titles ==
    Texts(MaxTitle)
    \cup {Chars("Intro"), Chars("Quick Start"), Chars("Setup (Advanced)"),
          <<"(", "a", ")">>, <<"a", " ", "(", "B", ")">>, <<"F", "o", "o", " ", "B", "a", "r">>,
          <<"#", "#", " ", "emoji:book", " ", "zh:jian", "fw:colon">>, <<"a", "&", "b">>}

\* Link anchors: the anchors of the titles in other spellings
Candidates ==
    {Chars("quick-start"), Chars("-intro-"), Chars("Quick%2DStart"), Chars("missing"),
     <<"F", "o", "o", "-", "B", "a", "r">>, <<"f", "o", "o", "-", "b", "a", "r">>,
     <<"b">>, <<"B">>, <<"-", "B", "-">>, <<"%", "4", "2">>, <<"%", "2", "8">>,
     <<"a", "%", "2", "D", "b">>, <<"a", "-", "B">>, <<"a", "b">>, <<"-">>}

\* Sets of valid anchors: what the headings of a document generate
AnchorSets ==
    {_generate_possible_anchors(title) : title \in Titles}
    \cup {{<<"f", "o", "o", "-", "b", "a", "r">>}, {<<"-", "a", "-", "b", "-">>, <<"B">>}}

Generated(title, anchors) ==
    [kind |-> "anchors", report |-> <<[title |-> title, anchors |-> anchors]>>]

\* validator._generate_possible_anchors(title); the calls are kept in log
GenerateAnchors ==
    /\ calls < MaxGenerations
    /\ calls' = calls + 1
    /\ \E title \in Titles :
          /\ outcome' = Generated(title, _generate_possible_anchors(title))
          /\ log' = Append(log, outcome'.report[1])
    /\ UNCHANGED <<validator, workflow_path, plugins, registry, plugin_results, weights,
                   changes>>

SpecAnchors == InitManager /\ [][GenerateAnchors]_vars

Answered(anchor, valid_anchors, result) ==
    [kind |-> "valid",
     report |-> <<[anchor |-> anchor, valid_anchors |-> valid_anchors, result |-> result]>>]

\* validator._is_anchor_valid(anchor, valid_anchors)
IsAnchorValid ==
    /\ calls < MaxAssessments
    /\ calls' = calls + 1
    /\ \E anchor \in Candidates \cup UNION AnchorSets, valid_anchors \in AnchorSets :
          outcome' = Answered(anchor, valid_anchors, _is_anchor_valid(anchor, valid_anchors))
    /\ UNCHANGED <<validator, workflow_path, manager>>

SpecAnchorValid == InitManager /\ [][IsAnchorValid]_vars

(***************************************************************************)
(* The Markdown checks called on their own, on the documents of at most    *)
(* MaxLines lines                                                          *)
(***************************************************************************)
MaxLines == 4

\* Headings of four levels titled "B", a fence, a link to #b, plain text
DocumentLines ==
    {HLine(n, "B", {}) : n \in 1..4} \cup {FenceLine("", 0), LinkLine("b"), TextLine({})}

RECURSIVE Documents(_)
Documents(n) ==
    IF n = 0 THEN {<< >>}
    ELSE Documents(n - 1) \cup {Append(t, l) : t \in Documents(n - 1), l \in DocumentLines}

Document(lines) == [File("doc.md", << >>, "md") EXCEPT !.lines = lines]

Checked(check, lines, issues) ==
    [kind |-> check, report |-> <<[lines |-> lines, issues |-> issues]>>]

\* validator._check_heading_hierarchy(content, file_path) on a fresh validator
CheckHeadingHierarchy ==
    /\ calls < MaxAssessments
    /\ calls' = calls + 1
    /\ \E lines \in Documents(MaxLines) :
          outcome' = Checked("heading_hierarchy", lines,
                             _check_heading_hierarchy(Document(lines)))
    /\ UNCHANGED <<validator, workflow_path, manager>>

\* validator._check_link_integrity(content, file_path) on a fresh validator
CheckLinkIntegrity ==
    /\ calls < MaxAssessments
    /\ calls' = calls + 1
    /\ \E lines \in Documents(MaxLines) :
          outcome' = Checked("link_integrity", lines,
                             _check_link_integrity(Document(lines), Dir(<<Document(lines)>>, {})))
    /\ UNCHANGED <<validator, workflow_path, manager>>

NextMarkdown == CheckHeadingHierarchy \/ CheckLinkIntegrity

SpecMarkdown == InitManager /\ [][NextMarkdown]_vars

(***************************************************************************)
(* _validate_step_completeness called on its own, on the documents of at   *)
(* most MaxSteps lines, after the section check left its counts            *)
(***************************************************************************)
MaxSteps == 3

MaxStepNumber == 3

StepDocumentLines == {StepLine(n) : n \in 0..MaxStepNumber} \cup {CheckLine}

RECURSIVE StepDocuments(_)
StepDocuments(n) ==
    IF n = 0 THEN {<< >>}
    ELSE StepDocuments(n - 1)
         \cup {Append(t, l) : t \in StepDocuments(n - 1), l \in StepDocumentLines}

\* The logic results the section check leaves: four sections found, or one missing
LogicBefore ==
    {Record(InitialResults, "logic", 4, 0, << >>),
     Record(InitialResults, "logic", 3, 1, <<Issue(<<"doc.md">>, << >>, "missing_section")>>)}

\* validator._validate_step_completeness(workflow_file)
ValidateStepCompleteness ==
    /\ calls < MaxAssessments
    /\ calls' = calls + 1
    /\ \E lines \in StepDocuments(MaxSteps), vr \in LogicBefore :
          outcome' = [kind |-> "step_completeness",
                      report |-> <<[lines |-> lines, before |-> vr.logic,
                                    after |-> _validate_step_completeness(
                                                  vr, Document(lines)).logic]>>]
    /\ UNCHANGED <<validator, workflow_path, manager>>

SpecSteps == InitManager /\ [][ValidateStepCompleteness]_vars

(***************************************************************************)
(* Properties of WorkflowValidator.validate_workflow (under Spec)          *)
(***************************************************************************)
\* The issue lists a report carries, stage after stage
ReportIssues(report) ==
    report.syntax_validation.issues \o report.logic_validation.issues
    \o report.dependency_validation.issues

\* How many issues have one of the four critical types
CriticalCount(issues) ==
    Cardinality({i \in DOMAIN issues :
                    issues[i].type \in {"missing_main_workflow", "python_syntax",
                                        "missing_section", "broken_link"}})

\* C1: in a returned report, summary.overall_status is "FAIL" exactly when
\* some issue of the syntax, logic or dependency lists has a critical type,
\* it is "PASS" otherwise, and summary.critical_issues counts those issues.
C1_OverallStatus ==
    outcome.kind = "report" =>
        /\ outcome.report[1].summary.overall_status =
              (IF CriticalCount(ReportIssues(outcome.report[1])) > 0 THEN "FAIL" ELSE "PASS")
        /\ outcome.report[1].summary.critical_issues =
              CriticalCount(ReportIssues(outcome.report[1]))

\* A report that fails on critical issues and also lists issues that are not
C1_FailingReportWithMinorIssues ==
    /\ outcome.kind = "report"
    /\ outcome.report[1].summary.overall_status = "FAIL"
    /\ outcome.report[1].summary.critical_issues > 0
    /\ outcome.report[1].summary.total_issues > outcome.report[1].summary.critical_issues

FourStages == <<"syntax", "logic", "dependencies", "quality">>

\* A call on a directory has come to its end
CallOnDirectoryEnded == pc = "idle" /\ calls > 0 /\ workflow_path.kind = "dir"

\* C2: every call on an existing directory runs syntax, logic, dependencies
\* and quality once each in that order, skipping none, and builds the
\* report only after the quality stage.
C2_AllStagesInOrder ==
    /\ \E n \in 0..Len(FourStages) : stages = SubSeq(FourStages, 1, n)
    /\ pc = "report" => stages = FourStages
    /\ CallOnDirectoryEnded => stages = FourStages /\ outcome.kind = "report"

\* The report of a call on d made by a validator that never ran before
FreshReport(d, xp, cfg) ==
    _generate_validation_report(
        assess_quality(
            validate_dependencies(
                validate_logic(validate_syntax(InitialResults, d, xp).vr, d).vr, d),
            d, xp, cfg).vr)

\* C3: a call starts its stages from reset results, and the report it
\* returns is the report a fresh validator gives for the same directory:
\* nothing of the earlier calls is in it.
C3_ReportOfThisCallOnly ==
    /\ pc = "syntax" => validation_results = InitialResults
    /\ outcome.kind = "report" =>
          outcome.report[1] = FreshReport(workflow_path, exclude_patterns, config)

\* A second call returns a report with fewer syntax issues than the call
\* before it left behind, plugin scores included
C3_SecondReportAfterIssues ==
    /\ calls = MaxCalls
    /\ outcome.kind = "report"
    /\ before.quality.plugin_scores # << >>
    /\ Len(outcome.report[1].syntax_validation.issues) < Len(before.syntax.issues)

\* C4: a call on a path that is missing or is not a directory raises
\* before any stage runs and leaves validation_results as they were.
C4_BadPathRaisesFirst ==
    (calls > 0 /\ workflow_path.kind # "dir") =>
        /\ outcome.kind = (IF workflow_path.kind = "missing" THEN "FileNotFoundError"
                           ELSE "NotADirectoryError")
        /\ stages = << >>
        /\ pc = "idle"
        /\ validation_results = before

\* A call on a regular file after a call that left results behind
C4_FileAfterResults ==
    /\ calls = MaxCalls
    /\ workflow_path.kind = "file"
    /\ outcome.kind = "NotADirectoryError"
    /\ before # InitialResults
    /\ validation_results = before

\* The in-scope Markdown, Python and JSON files that cannot be read,
\* decoded or parsed
Unusable(d, xp) ==
    {f \in Range(Glob(d, "md") \o Glob(d, "py") \o Glob(d, "json")) :
        /\ ~_should_exclude_file(f, xp)
        /\ f.read # "ok" \/ (f.ext \in {"py", "json"} /\ f.parse # "ok")}

\* The issues of a list that are scoped to a file
IssuesOf(issues, f) == {i \in DOMAIN issues : issues[i].file = PathOf(f)}

\* C5: once the syntax stage has run, every in-scope Markdown, Python or
\* JSON file that cannot be read, decoded or parsed has exactly one issue
\* scoped to it (with a line number for a parse error) and has added 1 to
\* failed; and the call still returns a full report.
C5_PerFileErrorsRecorded ==
    /\ (workflow_path.kind = "dir" /\ stages # << >>) =>
          /\ \A f \in Unusable(workflow_path, exclude_patterns) :
                /\ Cardinality(IssuesOf(validation_results.syntax.issues, f)) = 1
                /\ (f.read = "ok") =>
                      \A i \in IssuesOf(validation_results.syntax.issues, f) :
                          validation_results.syntax.issues[i].line = <<f.errline>>
          /\ validation_results.syntax.failed =
                Cardinality(Unusable(workflow_path, exclude_patterns))
                + Cardinality({i \in DOMAIN validation_results.syntax.issues :
                      validation_results.syntax.issues[i].type = "powershell_syntax"})
    /\ CallOnDirectoryEnded => outcome.kind = "report"

(***************************************************************************)
(* Properties of the quality plugins (under SpecPlugins) and of their      *)
(* manager (under SpecManager)                                             *)
(***************************************************************************)
\* C6: assess of each of the five standard plugins returns a value in
\* [0.0, 10.0] and does not raise, whatever the path holds.
C6_ScoreInRange ==
    /\ outcome.kind # "Exception"
    /\ outcome.kind = "score" =>
          /\ FGe(outcome.report[1].score, FZero)
          /\ FLe(outcome.report[1].score, max_score)

\* The completeness plugin scores 10.0 where its checks add up to more
C6_CompletenessAtTheTop ==
    /\ outcome.kind = "score"
    /\ outcome.report[1].plugin = "completeness"
    /\ workflow_path = FullDir
    /\ outcome.report[1].score = max_score

\* An existing directory with nothing in it
EmptyDir == Dir(<< >>, {})

\* C7: on an existing directory that satisfies no signal each plugin's
\* assess returns 0.0 and assess_quality returns overall_score 0.0 with the
\* lowest grade.
C7_NoSignalScoresZero ==
    workflow_path = EmptyDir =>
        /\ outcome.kind = "score" => FEq(outcome.report[1].score, FZero)
        /\ outcome.kind = "assessment" =>
              /\ FEq(outcome.report[1].overall_score, FZero)
              /\ outcome.report[1].grade = "zh:xuyao-gaijin"

\* The points of the checks of a plugin
PointsOf(plugin_name) ==
    CASE plugin_name = "completeness" -> completeness_points
      [] plugin_name = "usability" -> usability_points
      [] plugin_name = "maintainability" -> maintainability_points
      [] plugin_name = "documentation" -> documentation_points
      [] OTHER -> extensibility_points

\* The sum of a sequence of floats, left to right
RECURSIVE FSum(_)
FSum(seq) ==
    IF seq = << >> THEN FZero
    ELSE FAdd(FSum(SubSeq(seq, 1, Len(seq) - 1)), seq[Len(seq)])

C9_OverallScoreInRange ==
    outcome.kind = "assessment" =>
        /\ FGe(outcome.report[1].overall_score, FZero)
        /\ FLe(outcome.report[1].overall_score, max_score)

\* C10: the overall_score of assess_quality is the one the same plugins,
\* weights and scores give in the standard registration order.
C10_RegistrationOrderIrrelevant ==
    outcome.kind = "assessment" =>
        outcome.report[1].overall_score =
            _calculate_weighted_score(
                SelectSeq(standard_plugins, LAMBDA n : n \in Range(plugins)),
                outcome.report[1].dimension_scores, outcome.report[1].weights)

(***************************************************************************)
(* Grades (under Spec)                                                     *)
(***************************************************************************)
\* The five-level mapping: >= 9.0 excellent, >= 8.0 good, >= 7.0 moderate,
\* >= 6.0 fair, otherwise needs improvement
FiveLevelGrade(score) ==
    IF FGe(score, FromInt(9)) THEN "zh:youxiu"
    ELSE IF FGe(score, FromInt(8)) THEN "zh:lianghao"
    ELSE IF FGe(score, FromInt(7)) THEN "zh:zhongdeng"
    ELSE IF FGe(score, FromInt(6)) THEN "zh:yiban"
    ELSE "zh:xuyao-gaijin"

\* C11: the grade attached to a quality score follows the five-level
\* mapping, in the result of the manager's assess_quality and in
\* quality_assessment.grade of the report of validate_workflow.
C11_FiveLevelGrade ==
    /\ outcome.kind = "assessment" =>
          outcome.report[1].grade = FiveLevelGrade(outcome.report[1].overall_score)
    /\ outcome.kind = "report" =>
          outcome.report[1].quality_assessment.grade =
              FiveLevelGrade(outcome.report[1].quality_assessment.overall_score)

(***************************************************************************)
(* The plugin registry (under SpecManager)                                 *)
(***************************************************************************)
\* The calls of the log that name a plugin name
CallsOn(name) == {i \in DOMAIN log : log[i].name = name}

\* The last of them
LastCallOn(name) == log[CHOOSE i \in CallsOn(name) : \A j \in CallsOn(name) : j <= i]

\* C13: a new manager holds exactly the five standard plugins; after any
\* register_plugin and unregister_plugin calls the registry holds at most
\* one plugin per name, the plugin under a name is the one registered under
\* it last, and a name unregistered last is absent.
C13_RegistryFollowsLastCall ==
    /\ log = << >> => plugins = standard_plugins /\ registry = standard_registry
    /\ \A i, j \in DOMAIN plugins : plugins[i] = plugins[j] => i = j
    /\ DOMAIN registry = Range(plugins)
    /\ \A name \in Range(standard_plugins) :
          IF CallsOn(name) = {} THEN name \in DOMAIN registry /\ registry[name] = "standard"
          ELSE IF LastCallOn(name).op = "register"
               THEN name \in DOMAIN registry /\ registry[name] = LastCallOn(name).kind
               ELSE name \notin DOMAIN registry

\* A name is registered again with another plugin over the one it held
C13_Replaced ==
    /\ Len(log) = 2
    /\ log[1].op = "register" /\ log[2].op = "register"
    /\ log[1].name = log[2].name
    /\ log[1].kind # log[2].kind
    /\ registry[log[2].name] = log[2].kind

(***************************************************************************)
(* Failing plugins (under SpecManager)                                     *)
(***************************************************************************)
\* The registry with every plugin replaced by the standard plugin of its name
AllStandard(plugin_registry) == [n \in DOMAIN plugin_registry |-> "standard"]

\* C12: when assess or get_assessment_details of a plugin raises, its score
\* is 0.0 and its detail holds one failed check and no passed check; every
\* other plugin has the score and the detail it has when no plugin fails;
\* and assess_quality returns a result.
C12_FailingPluginIsolated ==
    /\ outcome.kind \notin {"none", "assessment"} =>
          outcome.kind = "FileNotFoundError" /\ workflow_path.kind = "missing"
    /\ outcome.kind = "assessment" =>
          \A n \in Range(plugins) :
              IF registry[n] # "standard"
              THEN /\ outcome.report[1].dimension_scores[n] = FZero
                   /\ outcome.report[1].plugin_details[n].score = FZero
                   /\ Len(outcome.report[1].plugin_details[n].failed_checks) = 1
                   /\ outcome.report[1].plugin_details[n].passed_checks = << >>
              ELSE /\ outcome.report[1].dimension_scores[n] =
                        dimension_scores(plugins, AllStandard(registry),
                                         plugin_results[workflow_path])[n]
                   /\ outcome.report[1].plugin_details[n] =
                        plugin_details(plugins, AllStandard(registry),
                                       plugin_results[workflow_path])[n]

\* Two plugins fail, one in assess and one in get_assessment_details, on a
\* directory where they would have scored, and a third plugin scores 10.0
C12_TwoFailOneScores ==
    /\ outcome.kind = "assessment"
    /\ workflow_path = FullDir
    /\ Range(plugins) = Range(standard_plugins)
    /\ registry["usability"] = "assess_raises"
    /\ registry["documentation"] = "details_raise"
    /\ outcome.report[1].dimension_scores["documentation"] = FZero
    /\ outcome.report[1].dimension_scores["extensibility"] = max_score

(***************************************************************************)
(* The quality stage of the validator (under Spec)                         *)
(***************************************************************************)
\* 0 <= x <= 10
InScoreRange(x) == FGe(x, FZero) /\ FLe(x, FromInt(10))

\* C14: in every returned report each dimension score of
\* quality_assessment.details lies in [0, 10], and summary.quality_score,
\* which is quality_assessment.overall_score, lies in [0, 10].
C14_ReportScoresInRange ==
    outcome.kind = "report" =>
        /\ \A dim \in DOMAIN outcome.report[1].quality_assessment.details :
              InScoreRange(outcome.report[1].quality_assessment.details[dim])
        /\ outcome.report[1].summary.quality_score =
              outcome.report[1].quality_assessment.overall_score
        /\ InScoreRange(outcome.report[1].summary.quality_score)

\* No dimension override can take effect under this configuration
NoOverride(cfg) ==
    ~cfg.enable_plugins \/ \A i \in DOMAIN cfg.dimension_overrides :
                               ~cfg.dimension_overrides[i].enabled

\* What QualityAssessmentManager().assess_quality(d) returns: the five
\* standard plugins, the default weights
ManagerResult(d) ==
    Aggregated(standard_plugins, standard_registry, QualityWeights, plugin_results[d])

\* C15: with no extended-plugin override enabled, the five dimension scores
\* and the overall score in the report of validate_workflow equal the
\* dimension_scores and the overall_score QualityAssessmentManager.assess_quality
\* returns for the same directory with the default weights.
C15_QualityStageIsTheManager ==
    (outcome.kind = "report" /\ NoOverride(config)) =>
        /\ outcome.report[1].quality_assessment.details =
              ManagerResult(workflow_path).dimension_scores
        /\ outcome.report[1].quality_assessment.overall_score =
              ManagerResult(workflow_path).overall_score

\* quality_scores before any override: the validator's own five assessments
StandardScores(d, xp) ==
    DimensionDict(_assess_completeness(d), _assess_usability(d, xp).score,
                  _assess_maintainability(d), _assess_documentation(d).score,
                  _assess_extensibility(d).score)

\* The positions of an override whose plugin has a score
ScoredPositions(o, plugin_scores) ==
    SelectSeq([i \in 1..Len(o.plugins) |-> i],
              LAMBDA i : i <= Len(o.weights) /\ o.plugins[i] \in DOMAIN plugin_scores)

TotalWeight(o, plugin_scores) ==
    FSum([k \in 1..Len(ScoredPositions(o, plugin_scores)) |->
            o.weights[ScoredPositions(o, plugin_scores)[k]]])

\* The weighted average of the scores of the named plugins
WeightedAverage(o, plugin_scores) ==
    FDiv(FSum([k \in 1..Len(ScoredPositions(o, plugin_scores)) |->
                 FMul(plugin_scores[o.plugins[ScoredPositions(o, plugin_scores)[k]]],
                      o.weights[ScoredPositions(o, plugin_scores)[k]])]),
         TotalWeight(o, plugin_scores))

\* The override replaces the score of its dimension
TakesEffect(o, plugin_scores) ==
    /\ o.enabled
    /\ Len(o.plugins) = Len(o.weights)
    /\ FGt(TotalWeight(o, plugin_scores), FZero)

OverridesOf(cfg, dim) ==
    IF cfg.enable_plugins
    THEN {i \in DOMAIN cfg.dimension_overrides : cfg.dimension_overrides[i].dimension = dim}
    ELSE {}

\* C16: in a report every standard dimension whose override is enabled, has
\* plugins and weights of one length and a positive total weight over the
\* named plugins that have a score, carries the weighted average of those
\* plugin scores; every other dimension (override disabled, absent, of
\* mismatched lengths, or without a scored plugin) carries its standard
\* score; and the overall score is the weighted sum of these details.
C16_DimensionOverride ==
    outcome.kind = "report" =>
        LET plugin_scores == IF config.enable_plugins
                             THEN assess_all(workflow_path, config.enabled_plugins)
                             ELSE EmptyDict
            details == outcome.report[1].quality_assessment.details
        IN  /\ DOMAIN details = Range(Dimensions)
            /\ \A dim \in Range(Dimensions) :
                  /\ \A i \in OverridesOf(config, dim) :
                        TakesEffect(config.dimension_overrides[i], plugin_scores) =>
                            details[dim] =
                                WeightedAverage(config.dimension_overrides[i], plugin_scores)
                  /\ (\A i \in OverridesOf(config, dim) :
                         ~TakesEffect(config.dimension_overrides[i], plugin_scores)) =>
                        details[dim] = StandardScores(workflow_path, exclude_patterns)[dim]
            /\ outcome.report[1].quality_assessment.overall_score =
                  WeightedSum(Dimensions, details, QualityWeights, FZero)

\* A report under the overriding configuration: maintainability replaced by
\* the plugins' average, documentation (lists of different lengths) and
\* extensibility (no scored plugin) left at a standard score that differs
\* from what the named plugins would have given
C16_Overridden ==
    /\ outcome.kind = "report"
    /\ config = OverrideConfig
    /\ outcome.report[1].quality_assessment.details["maintainability"] #
          StandardScores(workflow_path, exclude_patterns)["maintainability"]
    /\ outcome.report[1].quality_assessment.details["documentation"] #
          assess_all(workflow_path, config.enabled_plugins)["security"]
    /\ outcome.report[1].quality_assessment.details["usability"] =
          StandardScores(workflow_path, exclude_patterns)["usability"]

\* The quality stage of the last call ran to its end with the plugin system on
PluginsAssessed ==
    (pc = "report" \/ outcome.kind = "report") /\ config.enable_plugins

\* One of the validator's own assessments raises on d
StandardRaises(d, xp) ==
    _assess_usability(d, xp).raised \/ _assess_documentation(d).raised
        \/ _assess_extensibility(d).raised

\* C17: assess_all gives one score per enabled extended plugin and none for
\* a disabled one; the score of a plugin whose assess raises is 0.0, every
\* other enabled plugin still has its own score clamped to [0, 10], and
\* assess_all never raises: the quality stage ends with an exception only
\* when one of the validator's own assessments raised.
C17_AssessAllIsolatesFailures ==
    /\ PluginsAssessed =>
          /\ Len(validation_results.quality.plugin_scores) = 1
          /\ LET results == validation_results.quality.plugin_scores[1]
             IN  /\ DOMAIN results = Range(builtin_plugins) \cap config.enabled_plugins
                 /\ \A name \in DOMAIN results :
                       /\ InScoreRange(results[name])
                       /\ PluginAssess(name, workflow_path).raised => results[name] = FZero
                       /\ ~PluginAssess(name, workflow_path).raised =>
                             results[name] =
                                 PyMin(FromInt(10),
                                       PyMax(FZero, PluginAssess(name, workflow_path).score))
    /\ (outcome.kind = "Exception" /\ stages = FourStages) =>
          StandardRaises(workflow_path, exclude_patterns)

\* A report made with one extended plugin disabled, one that raised and one
\* that scored above zero
C17_OneRaisedOneScored ==
    /\ outcome.kind = "report"
    /\ config.enable_plugins
    /\ "performance" \notin config.enabled_plugins
    /\ PluginAssess("security", workflow_path).raised
    /\ validation_results.quality.plugin_scores[1]["security"] = FZero
    /\ FGt(validation_results.quality.plugin_scores[1]["test_coverage"], FZero)

\* C18: the AssessmentDetail a standard plugin's get_assessment_details
\* returns has its score in [0, max_score], and its recommendations are
\* non-empty only when its failed_checks are non-empty.
C18_RecommendationsOnlyWithFailedChecks ==
    outcome.kind = "details" =>
        /\ FGe(outcome.report[1].details.score, FZero)
        /\ FLe(outcome.report[1].details.score, max_score)
        /\ outcome.report[1].details.recommendations # << >> =>
              outcome.report[1].details.failed_checks # << >>

\* A file of the same path, kind and permissions with nothing in it
Blank(f) == [File(f.name, f.dirs, f.ext) EXCEPT !.pat = f.pat, !.read = f.read, !.run = f.run]

\* The directory that differs from d only in the contents of the files the
\* patterns exclude
WithoutExcludedContents(d, exclude) ==
    [d EXCEPT !.files = [i \in DOMAIN d.files |->
                            IF _should_exclude_file(d.files[i], exclude)
                            THEN Blank(d.files[i]) ELSE d.files[i]]]

\* The dimensions scored by keyword and regex scans of file contents
ContentDimensions == {"usability", "maintainability", "documentation", "extensibility"}

\* The standard plugins score d as they score the directory without the
\* contents of its excluded files
PluginsSkipExcluded(d) ==
    \A n \in ContentDimensions :
        Assess(n, WithoutExcludedContents(d, default_patterns)) = plugin_results[d][n].assess

\* C19: the contents of excluded files are skipped from all content scans:
\* the content-based dimension scores in a report, and those of the
\* standard plugins, are the scores of the directory that differs only in
\* having its excluded files empty.
C19_ExcludedContentsSkipped ==
    outcome.kind = "report" =>
        /\ PluginsSkipExcluded(workflow_path)
        /\ \A dim \in ContentDimensions :
              outcome.report[1].quality_assessment.details[dim] =
                  FreshReport(WithoutExcludedContents(workflow_path, exclude_patterns),
                              exclude_patterns, config).quality_assessment.details[dim]

\* A weight configuration without a negative weight whose total is in the
\* tolerated band [0.8, 1.2]
GoodWeights(w) ==
    /\ \A dimension \in DOMAIN w : FGe(w[dimension], FZero)
    /\ FGe(WeightLoop(Dimensions, [dim \in Range(Dimensions) |-> FZero], w,
                      [total_score |-> FZero, total_weight |-> FZero]).total_weight,
           Dec(8, 10))
    /\ FLe(WeightLoop(Dimensions, [dim \in Range(Dimensions) |-> FZero], w,
                      [total_score |-> FZero, total_weight |-> FZero]).total_weight,
           Dec(12, 10))

\* C20: a bad weight configuration given through update_weights or
\* custom_weights is replaced by the default weights, so assess_quality
\* never aggregates with a negative weight or a total outside the band: the
\* weights of a result are the defaults or a good configuration, and the
\* overall score is the aggregate under the defaults when they are not good.
C20_BadWeightsReplacedByDefaults ==
    outcome.kind = "assessment" =>
        \/ GoodWeights(outcome.report[1].weights)
        \/ /\ outcome.report[1].weights = QualityWeights
           /\ outcome.report[1].overall_score =
                 _calculate_weighted_score(plugins, outcome.report[1].dimension_scores,
                                           QualityWeights)

(***************************************************************************)
(* Properties of the Markdown checks                                       *)
(***************************************************************************)
\* C21: for every non-empty heading text _generate_possible_anchors returns
\* a non-empty finite collection without the empty string (and, being a
\* set, without duplicates), and two calls on the same heading return the
\* same set of anchors.
C21_AnchorsOfNonEmptyHeading ==
    /\ outcome.kind = "anchors" =>
          /\ IsFiniteSet(outcome.report[1].anchors)
          /\ << >> \notin outcome.report[1].anchors
          /\ outcome.report[1].title # << >> => outcome.report[1].anchors # {}
    /\ \A i, j \in DOMAIN log : log[i].title = log[j].title => log[i].anchors = log[j].anchors

\* The text between its first and its last character that is not a hyphen
Core(text) ==
    IF \A i \in DOMAIN text : text[i] = "-" THEN << >>
    ELSE SubSeq(text,
                CHOOSE i \in DOMAIN text : text[i] # "-" /\ \A j \in 1..(i - 1) : text[j] = "-",
                CHOOSE i \in DOMAIN text :
                    text[i] # "-" /\ \A j \in (i + 1)..Len(text) : text[j] = "-")

\* Equal but for the case of the letters and for leading and trailing hyphens
SameLoosely(a, b) ==
    /\ Len(Core(a)) = Len(Core(b))
    /\ \A i \in DOMAIN Core(a) : LowerChar(Core(a)[i]) = LowerChar(Core(b)[i])

FooBar == <<"F", "o", "o", "-", "B", "a", "r">>

\* C22: _is_anchor_valid is true exactly when the candidate is a member of
\* the set, or its percent-decoded form is, or it equals a member but for
\* case and outer hyphens; so a member of the generated anchors is valid
\* against them, "Foo-Bar" is valid against {"foo-bar"}, and "b" is valid
\* against the anchors of the heading "## B".
C22_AnchorValidity ==
    outcome.kind = "valid" =>
        LET anchor == outcome.report[1].anchor
            valid_anchors == outcome.report[1].valid_anchors
        IN  /\ outcome.report[1].result =
                  (\/ anchor \in valid_anchors
                   \/ Unquote(anchor) \in valid_anchors
                   \/ \E v \in valid_anchors : SameLoosely(anchor, v))
            /\ anchor \in valid_anchors => outcome.report[1].result
            /\ (anchor = FooBar /\ valid_anchors = {lower(FooBar)}) => outcome.report[1].result
            /\ (anchor = <<"b">>
                   /\ valid_anchors = _generate_possible_anchors(<<"#", "#", " ", "B">>)) =>
                  outcome.report[1].result

\* "Foo-Bar" was found valid against {"foo-bar"}
C22_FooBarValid ==
    /\ outcome.kind = "valid"
    /\ outcome.report[1].anchor = FooBar
    /\ outcome.report[1].valid_anchors = {lower(FooBar)}
    /\ outcome.report[1].result

\* Line i is outside fenced code: it is no fence and an even number of
\* fences comes before it
OutsideFences(lines, i) ==
    /\ lines[i].k # "fence"
    /\ Cardinality({j \in 1..(i - 1) : lines[j].k = "fence"}) % 2 = 0

\* The heading lines outside fenced code
HeadingsOf(lines) == {i \in DOMAIN lines : lines[i].k = "h" /\ OutsideFences(lines, i)}

\* The level of the heading before line i, 0 before the first
LevelBefore(lines, i) ==
    IF \E j \in HeadingsOf(lines) : j < i
    THEN lines[CHOOSE j \in HeadingsOf(lines) :
                   j < i /\ \A k \in HeadingsOf(lines) : k < i => k <= j].n
    ELSE 0

Jumps(lines) == {i \in HeadingsOf(lines) : lines[i].n > LevelBefore(lines, i) + 1}

WithoutFencedHeadings(lines) ==
    [i \in DOMAIN lines |->
        IF lines[i].k = "h" /\ ~OutsideFences(lines, i) THEN TextLine({}) ELSE lines[i]]

\* The anchors of the headings outside fenced code
AnchorsOutsideFences(lines) ==
    UNION {_generate_possible_anchors(Chars(lines[i].s)) : i \in HeadingsOf(lines)}

\* C24: a heading-like line inside fenced code gives no anchor and takes no
\* part in the hierarchy check: the hierarchy issues are those of the
\* document without its fenced headings, and one broken_link issue is
\* recorded for every in-document link whose anchor matches no heading
\* outside fenced code.
C24_FencedHeadingsIgnored ==
    /\ outcome.kind = "heading_hierarchy" =>
          outcome.report[1].issues =
              _check_heading_hierarchy(Document(WithoutFencedHeadings(outcome.report[1].lines)))
    /\ outcome.kind = "link_integrity" =>
          Cardinality({k \in DOMAIN outcome.report[1].issues :
                          outcome.report[1].issues[k].type = "broken_link"})
              = Cardinality({i \in DOMAIN outcome.report[1].lines :
                                /\ outcome.report[1].lines[i].k = "link"
                                /\ ~_is_anchor_valid(Chars(outcome.report[1].lines[i].s),
                                        AnchorsOutsideFences(outcome.report[1].lines))})
\* The candidates for the main workflow document, by rank
MainRank(f) ==
    IF f.dirs # << >> THEN 0
    ELSE IF Len(f.name) > 0 /\ "*_template.md" \in f.pat THEN 1
    ELSE IF f.name = "workflow.md" THEN 2
    ELSE IF f.name = "README.md" THEN 3
    ELSE 0

MainCandidates(d) == {f \in Range(d.files) : MainRank(f) > 0}

TopCandidates(d) ==
    {f \in MainCandidates(d) : \A g \in MainCandidates(d) : MainRank(f) <= MainRank(g)}

\* The four checks of the logic stage on file f of directory d
LogicChecksOn(f, d) ==
    _validate_file_references(
        _validate_checkpoints(
            _validate_step_completeness(
                _validate_workflow_structure(InitialResults, f), f), f), f, d).logic

LogicDone ==
    /\ pc \in {"dependencies", "quality", "report"} \/ (pc = "idle" /\ calls > 0)
    /\ "logic" \in Range(stages)
    /\ workflow_path.kind = "dir"

\* C25: the logic stage checks the candidate of highest priority (a root
\* *_template.md, else workflow.md, else README.md); without a candidate it
\* records one missing_main_workflow issue, one failure and no pass, and
\* the later stages still run
C25_MainWorkflowByPriority ==
    LogicDone =>
        LET d == workflow_path
            logic == validation_results.logic
        IN  IF MainCandidates(d) = {}
            THEN /\ logic.failed = 1
                 /\ logic.passed = 0
                 /\ Len(logic.issues) = 1
                 /\ logic.issues[1].type = "missing_main_workflow"
                 /\ pc = "idle" => stages = <<"syntax", "logic", "dependencies", "quality">>
            ELSE \/ \E f \in TopCandidates(d) : f.read = "ok" /\ logic = LogicChecksOn(f, d)
                 \/ \E f \in TopCandidates(d) : f.read # "ok" /\ pc = "idle" /\ logic = Stage0

C25_NoMainThenLaterStages ==
    /\ LogicDone
    /\ pc = "idle"
    /\ MainCandidates(workflow_path) = {}
    /\ outcome.kind = "report"
    /\ validation_results.logic.failed = 1

C25_WorkflowBeforeReadme ==
    /\ LogicDone
    /\ workflow_path = WorkflowAndReadmeDir
    /\ \E i \in DOMAIN validation_results.logic.issues :
          validation_results.logic.issues[i].file = <<"workflow.md">>

\* The step numbers of a document, in document order
RECURSIVE StepNumbers(_)
StepNumbers(lines) ==
    IF lines = << >> THEN << >>
    ELSE IF Head(lines).k = "step" THEN <<Head(lines).n>> \o StepNumbers(Tail(lines))
    ELSE StepNumbers(Tail(lines))

OneToK(numbers) == Len(numbers) >= 1 /\ \A i \in DOMAIN numbers : numbers[i] = i

\* The issues a call added to the ones it found
AddedIssues(r) == SubSeq(r.after.issues, Len(r.before.issues) + 1, Len(r.after.issues))

StepsChecked == outcome.kind = "step_completeness"

\* C26: the step check passes once, without an issue, exactly when the step
\* numbers in document order are 1..K with K >= 1; otherwise it fails once
\* with one no_steps issue (no step) or one step_numbering issue
C26_StepCompleteness ==
    StepsChecked =>
        LET r == outcome.report[1]
            numbers == StepNumbers(r.lines)
            added == AddedIssues(r)
        IN  /\ SubSeq(r.after.issues, 1, Len(r.before.issues)) = r.before.issues
            /\ IF OneToK(numbers)
               THEN /\ r.after.passed = r.before.passed + 1
                    /\ r.after.failed = r.before.failed
                    /\ added = << >>
               ELSE /\ r.after.passed = r.before.passed
                    /\ r.after.failed = r.before.failed + 1
                    /\ Len(added) = 1
                    /\ added[1].type = IF numbers = << >> THEN "no_steps" ELSE "step_numbering"

C26_RightNumbersOutOfOrder ==
    /\ StepsChecked
    /\ StepNumbers(outcome.report[1].lines) = <<2, 1>>
    /\ outcome.report[1].before.failed = 1
    /\ AddedIssues(outcome.report[1])[1].type = "step_numbering"

Assessed == outcome.kind = "assessment"

\* How many entries the lists under one key of the plugin details hold together
ChecksUnder(details, key) ==
    Cardinality({<<n, i>> \in (DOMAIN details) \X (1..20) : i \in DOMAIN details[n][key]})

Position(n) == CHOOSE i \in DOMAIN plugins : plugins[i] = n

\* n is the first of the registered dimensions whose score no other beats
FirstExtreme(n, scores, Beats(_, _)) ==
    /\ n \in Range(plugins)
    /\ \A m \in Range(plugins) : ~Beats(scores[m], scores[n])
    /\ \A m \in Range(plugins) : Position(m) < Position(n) => Beats(scores[n], scores[m])

\* The recommendations found in the plugin details
Recommended(details) ==
    {Recommendation(n, details[n].recommendations[i]) :
        <<n, i>> \in {x \in (DOMAIN details) \X (1..20) : x[2] \in DOMAIN details[x[1]].recommendations}}

\* C27: the summary totals the passed and failed checks of the plugin
\* details, names the first dimension of highest and of lowest score, and
\* lists at most 5 distinct recommendations, each one found in the details
C27_Summary ==
    Assessed =>
        LET r == outcome.report[1]
            summary == r.summary
            top == summary.top_recommendations
        IN  /\ summary.passed_checks = ChecksUnder(r.plugin_details, "passed_checks")
            /\ summary.failed_checks = ChecksUnder(r.plugin_details, "failed_checks")
            /\ summary.total_checks = summary.passed_checks + summary.failed_checks
            /\ plugins # << >> =>
                  /\ FirstExtreme(summary.best_dimension, r.dimension_scores, FGt)
                  /\ FirstExtreme(summary.worst_dimension, r.dimension_scores, FLt)
            /\ Len(top) <= 5
            /\ \A i, j \in DOMAIN top : i # j => top[i] # top[j]
            /\ \A i \in DOMAIN top : top[i] \in Recommended(r.plugin_details)

\* Two plugins fail with the same recommendation and two dimensions share the
\* highest score
C27_SharedRecommendationAndTie ==
    /\ Assessed
    /\ Cardinality({n \in Range(plugins) : registry[n] # "standard"}) = 2
    /\ <<"check_plugin_configuration">> \in Range(outcome.report[1].summary.top_recommendations)
    /\ \E n, m \in Range(plugins) :
          /\ n # m
          /\ outcome.report[1].dimension_scores[n] = outcome.report[1].dimension_scores[m]
          /\ outcome.report[1].summary.worst_dimension \in {n, m}

Reported == outcome.kind = "report"

\* The directory with the imports of the allow-listed modules taken out of its files
WithoutBuiltinImports(d) ==
    [d EXCEPT !.files =
        [i \in DOMAIN d.files |->
            [d.files[i] EXCEPT !.imports =
                SelectSeq(@, LAMBDA m : m \notin {"os", "sys", "re", "json", "logging",
                                                  "datetime", "pathlib", "subprocess",
                                                  "argparse", "unittest", "tempfile",
                                                  "shutil"})]]]

\* C28: no dependency issue has a critical type, the summary's status and
\* critical count are what they are without the dependency results, and the
\* imports of allow-listed modules add nothing to the dependency passed count
C28_DependenciesNonBlocking ==
    Reported =>
        LET dependencies == validation_results.dependencies
            without == CriticalCount(validation_results.syntax.issues
                                     \o validation_results.logic.issues)
        IN  /\ \A i \in DOMAIN dependencies.issues :
                  dependencies.issues[i].type \in
                      {"invalid_package", "requirements_error", "import_check_error",
                       "powershell_module_error"}
            /\ outcome.report[1].summary.overall_status =
                  (IF without = 0 THEN "PASS" ELSE "FAIL")
            /\ outcome.report[1].summary.critical_issues = without
            /\ dependencies.passed =
                  validate_dependencies(InitialResults,
                                        WithoutBuiltinImports(workflow_path)).dependencies.passed

\* A report on a directory with an invalid requirement and a built-in import
C28_IssuesAndBuiltinImport ==
    /\ Reported
    /\ validation_results.dependencies.failed > 0
    /\ \E f \in Range(workflow_path.files) :
          f.read = "ok" /\ "unittest" \in Range(f.imports)

\* The syntax stage of the call returned (no exception left it)
SyntaxDone ==
    /\ workflow_path.kind = "dir"
    /\ pc \in {"logic", "dependencies", "quality", "report"} \/ (pc = "idle" /\ Reported)

SyntaxChecks(f) == ~_should_exclude_file(f, exclude_patterns)

\* The in-scope files the syntax stage could not read or parse
NotReadOrParsed(d) ==
    {f \in Range(d.files) :
        /\ SyntaxChecks(f)
        /\ \/ f.ext \in {"md", "py"} /\ f.read # "ok"
           \/ f.ext \in {"py", "json"} /\ f.read = "ok" /\ f.parse # "ok"
           \/ f.ext = "ps1" /\ f.run = "fail"}

ReadableMarkdown(d) == {f \in Range(d.files) : SyntaxChecks(f) /\ f.ext = "md" /\ f.read = "ok"}

\* C29: a readable in-scope Markdown file counts as passed and never as
\* failed, so that syntax failed counts the files that could not be read or
\* parsed and the syntax status is "FAIL" only when there is one
C29_ReadableMarkdownPasses ==
    SyntaxDone =>
        LET syntax == validation_results.syntax
        IN  /\ \A i \in DOMAIN syntax.issues :
                  syntax.issues[i].type = "markdown_syntax" =>
                      ~\E f \in ReadableMarkdown(workflow_path) :
                            PathOf(f) = syntax.issues[i].file
            /\ syntax.passed >= Cardinality(ReadableMarkdown(workflow_path))
            /\ syntax.failed = Cardinality(NotReadOrParsed(workflow_path))
            /\ Reported =>
                  (outcome.report[1].syntax_validation.status = "FAIL"
                      => NotReadOrParsed(workflow_path) # {})

\* The assessment of the same path by the manager without plugin n
WithoutPlugin(n) ==
    Aggregated(unregister_plugin(plugins, n), remove_plugin(registry, n), weights,
               plugin_results[workflow_path])

\* C30: a plugin under a name without a weight is assessed and summarised
\* but leaves overall_score and grade as they are without it; without a
\* positive weight among the registered plugins overall_score is 0.0
C30_UnweightedPlugin ==
    Assessed =>
        LET r == outcome.report[1]
        IN  /\ \A n \in Range(plugins) \ DOMAIN weights :
                  /\ n \in DOMAIN r.dimension_scores
                  /\ r.summary.passed_checks + r.summary.failed_checks >=
                        Len(r.plugin_details[n].passed_checks)
                        + Len(r.plugin_details[n].failed_checks)
                        + ChecksUnder(WithoutPlugin(n).plugin_details, "passed_checks")
                        + ChecksUnder(WithoutPlugin(n).plugin_details, "failed_checks")
                  /\ r.overall_score = WithoutPlugin(n).overall_score
                  /\ r.grade = WithoutPlugin(n).grade
            /\ (\A n \in Range(plugins) : ~FGt(WeightOf(weights, n), FZero))
                  => FEq(r.overall_score, FZero)

====
